---- MODULE Spec2Model ----
(***************************************************************************)
(* Dual detection framework: plant, observer-based controller, the two    *)
(* chi-square detectors, the channel and the per-tick orchestrator        *)
(* (SystemSimulator), as state machines.                                   *)
(*                                                                         *)
(* Numbers.  Signals (x, x_hat, y, u, residuals, magnitudes, time) are    *)
(* fixed-point integers in units of 1/SigScale (0.01).  Matrix entries    *)
(* are integers in units of 1/MatScale (0.0001), the four decimals of the *)
(* literals in plant.py.  A matrix-vector product is rounded to the       *)
(* nearest signal unit.  Test statistics J = r^2 / 0.01 are kept in       *)
(* units of 0.01, which makes J exactly r*r on signal units.              *)
(* Floating-point rounding of the Python code is outside the model.       *)
(***************************************************************************)
EXTENDS Integers, Sequences, FiniteSets, TLC

\* ------------------------------------------------------------------ bounds
MaxTicks == 3      \* step() calls explored in one behaviour
MaxEvents == 2     \* environment events explored in one behaviour: commands,
                   \* failing FaultDetector.check calls, non-zero noise draws

\* --------------------------------------------------------------- constants
MatScale == 10000  \* matrix literals carry four decimals
DT == 10           \* self.time += 0.1, in signal units of 0.01
HistoryCap == 1000 \* "Keep last 1000 samples"
ReplayLag == 10    \* attack_history[-10], guarded by len > 10
ReplayCap == 100   \* attack_history keeps 100 entries
StatsPeriod == 100 \* network stats saved when step_count % 100 == 0

\* Plant.__init__: A, B, C, D (entries times MatScale).
A == << <<8825, 987>>, <<-8458, 9122>> >>
B == << <<-194, -36>>, <<-19290, -3808>> >>
C == << <<10000, 0>> >>
D == << <<0, 0>> >>

\* Controller._design_observer / _design_controller: the gains the two Riccati
\* solves give for the matrices above (to four decimals, times MatScale).
L == << <<2230>>, <<-198>> >>
F == << <<-2550, 3856>>, <<-513, 760>> >>

\* Dimensions read from the matrix shapes (controller.py 20-22, detectors.py 76-78).
n == Len(A)
m == Len(B[1])
p == Len(C)

\* chi2.ppf(0.99, df=1) = 6.6349 and chi2.ppf(0.99, df=2) = 9.2103, in units of
\* 0.01 and rounded down: on integer statistics J > 6.6349 iff J_units > 663.
FaultThreshold == 663
AttackThreshold == 921
\* The thresholds hard-coded in the safe-default record (6.63 and 9.21).
DefaultFaultThreshold == 663
DefaultAttackThreshold == 921

\* ----------------------------------------------------------- linear algebra
Zeros(k) == [i \in 1..k |-> 0]
Ones(k) == [i \in 1..k |-> 1]

RECURSIVE SumTo(_, _)
SumTo(f, k) == IF k = 0 THEN 0 ELSE f[k] + SumTo(f, k - 1)

\* Nearest signal unit of a product carried in units of 1/MatScale.
Round(s) == (s + (MatScale \div 2)) \div MatScale

Shape(M) == <<Len(M), Len(M[1])>>

\* numpy's matmul is defined when the inner dimensions agree.
Conformable(s1, s2) == s1[2] = s2[1]

\* M @ v for a matrix M (scaled) and a 1-D vector v.
MatVec(M, v) ==
    [i \in 1..Len(M) |-> Round(SumTo([j \in 1..Len(v) |-> M[i][j] * v[j]], Len(v)))]

VecAdd(a, b) == [i \in 1..Len(a) |-> a[i] + b[i]]
VecSub(a, b) == [i \in 1..Len(a) |-> a[i] - b[i]]
VecScale(k, a) == [i \in 1..Len(a) |-> k * a[i]]

\* X @ Y and X - Y for scaled matrices.
MatMul(X, Y) ==
    [i \in 1..Len(X) |->
        [j \in 1..Len(Y[1]) |->
            Round(SumTo([k \in 1..Len(Y) |-> X[i][k] * Y[k][j]], Len(Y)))]]
MatSub(X, Y) == [i \in 1..Len(X) |-> [j \in 1..Len(X[1]) |-> X[i][j] - Y[i][j]]]

\* A magnitude as a command carries it: a number, or a JSON value that is not
\* one (handle_command passes data.get('magnitude') on unchecked).
Num(v) == [num |-> TRUE, v |-> v]
NotNum == [num |-> FALSE, v |-> 0]

\* Residual covariances: Sigma_r = 0.01 and Sigma_r_u = 0.01 * I, in units of 0.01.
Sigma_r == 1
Sigma_r_u == 1

\* AttackDetector._build_estimator: L_u = 0.5 * eye(n); C_est = controller.F.
L_u == [i \in 1..n |-> [j \in 1..n |-> IF i = j THEN MatScale \div 2 ELSE 0]]
C_est == F
\* A_est = controller.A - L_u @ controller.C and B_est = L_u.reshape(n, 1), as
\* written; they have a value only for shapes on which numpy defines them.
A_est == MatSub(A, MatMul(L_u, C))
B_est == [i \in 1..n |-> <<L_u[i][1]>>]

VARIABLES
    mats,            \* A, B, C, D, L, F, L_u, C_est, Sigma_r, Sigma_r_u, thresholds
    plant,           \* Plant: x, fault_active, fault_type, fault_magnitude
    controller,      \* Controller: x_hat, reference
    fault_detector,  \* FaultDetector: residuals, test_statistics, detections
    attack_detector, \* AttackDetector: x_u_hat and the three histories
    network,         \* SecureNetwork: attack state, replay history, counters
    sim,             \* SystemSimulator: time, step_count, last_u
    db,              \* Database tables as append-ordered row lists
    pc,              \* position of step(): "idle" between calls
    loc,             \* step()'s local variables
    result,          \* the record the last step() returned
    log,             \* the stage calls of the current (or last) step(), in order
    hist             \* bookkeeping: calls made, last commands, tick start time

vars == <<mats, plant, controller, fault_detector, attack_detector, network,
          sim, db, pc, loc, result, log, hist>>

\* ------------------------------------------------------------------ Plant
\* Plant.step(u) with the draws w (process noise) and eta (sensor noise).
\* raised: a TypeError from arithmetic on a non-numeric magnitude; the state
\* update of line 52 has already happened when line 58 raises.
\* lines 43-49: the branch of the fault taken, and what each branch contributes
ActiveKind(pl) == IF pl.fault_active THEN pl.fault_type ELSE "None"
FaultProcess(pl) ==
    IF ActiveKind(pl) = "plant" THEN VecScale(pl.fault_magnitude.v, Ones(n)) ELSE Zeros(n)
FaultSensor(pl) == IF ActiveKind(pl) = "sensor" THEN pl.fault_magnitude.v ELSE 0
\* (mutant of ActuatorShift) the magnitude is added to the first channel only
ActuatorShift_FirstChannel(pl) ==
    IF ActiveKind(pl) = "actuator"
    THEN [i \in 1..m |-> IF i = 1 THEN pl.fault_magnitude.v ELSE 0]
    ELSE Zeros(m)
ActuatorShift(pl) ==
    IF ActiveKind(pl) = "actuator" THEN VecScale(pl.fault_magnitude.v, Ones(m))
    ELSE Zeros(m)
FaultEffects(pl) ==
    (IF FaultProcess(pl) # Zeros(n) THEN {"state_disturbance"} ELSE {})
    \cup (IF FaultSensor(pl) # 0 THEN {"sensor_bias"} ELSE {})
    \cup (IF ActuatorShift(pl) # Zeros(m) THEN {"actuator_shift"} ELSE {})

plant_step(pl, u, w, eta) ==
    LET mag == pl.fault_magnitude
        kind == ActiveKind(pl)
        early == kind \in {"plant", "actuator"} /\ ~mag.num
        fault_process == FaultProcess(pl)
        u_eff == VecAdd(u, ActuatorShift(pl))
        x_new == VecAdd(VecAdd(VecAdd(MatVec(mats.A, pl.x), MatVec(mats.B, u_eff)), w),
                        fault_process)
        late == kind = "sensor" /\ ~mag.num
        fault_sensor == FaultSensor(pl)
        y == VecAdd(MatVec(mats.C, x_new), MatVec(mats.D, u_eff))[1] + eta + fault_sensor
    IN  IF early THEN [plant |-> pl, y |-> 0, raised |-> TRUE]
        ELSE [plant |-> [pl EXCEPT !.x = x_new],
              y |-> IF late THEN 0 ELSE y,
              raised |-> late]

\* (mutant of set_fault) a fault already active is kept and the new one dropped
set_fault_KeepsFirst(pl, fault_type, magnitude) ==
    IF pl.fault_active THEN pl
    ELSE [pl EXCEPT !.fault_active = TRUE, !.fault_type = fault_type,
                    !.fault_magnitude = magnitude]
set_fault(pl, fault_type, magnitude) ==
    [pl EXCEPT !.fault_active = TRUE, !.fault_type = fault_type,
               !.fault_magnitude = magnitude]

\* (mutant of clear_fault) only the magnitude is cleared
clear_fault_StillActive(pl) == [pl EXCEPT !.fault_magnitude = Num(0)]
clear_fault(pl) ==
    [pl EXCEPT !.fault_active = FALSE, !.fault_type = "None",
               !.fault_magnitude = Num(0)]

\* (mutant of plant_reset) the fault is left in place
plant_reset_KeepFault(pl) == [pl EXCEPT !.x = Zeros(n)]
plant_reset(pl) == clear_fault([pl EXCEPT !.x = Zeros(n)])

\* -------------------------------------------------------------- Controller
\* u = F x_hat + [reference, 0]
compute_control(c) ==
    VecAdd(MatVec(mats.F, c.x_hat), [i \in 1..m |-> IF i = 1 THEN c.reference ELSE 0])

\* y_hat = C x_hat + D u; innovation = y - y_hat; x_hat <- A x_hat + B u + L * innovation
update_observer(c, y, u) ==
    LET y_hat == VecAdd(MatVec(mats.C, c.x_hat), MatVec(mats.D, u))[1]
        innovation == y - y_hat
        L_times_innov == [i \in 1..n |-> Round(mats.L[i][1] * innovation)]
        x_new == VecAdd(VecAdd(MatVec(mats.A, c.x_hat), MatVec(mats.B, u)), L_times_innov)
    IN  [controller |-> [c EXCEPT !.x_hat = x_new], y_hat |-> y_hat,
         innovation |-> innovation]

set_reference(c, ref) == [c EXCEPT !.reference = ref]

controller_reset(c) == [c EXCEPT !.x_hat = Zeros(n), !.reference = 0]

\* --------------------------------------------------------------- detectors
\* append to a history list, keeping the last HistoryCap samples
\* (mutant of Keep) the oldest entry is dropped one entry early
Keep_OneShort(h, e) ==
    LET h1 == Append(h, e) IN IF Len(h1) >= HistoryCap THEN Tail(h1) ELSE h1
Keep(h, e) ==
    LET h1 == Append(h, e) IN IF Len(h1) > HistoryCap THEN Tail(h1) ELSE h1

\* J = residual^2 / Sigma_r; detected = J > threshold
FaultStatistic(residual) == (residual * residual) \div mats.Sigma_r
\* (mutant of FaultDecision) the comparison turned around
FaultDecision_Below(J) == J < mats.fault_threshold
FaultDecision(J) == J > mats.fault_threshold

FaultDetector_check(fd, residual) ==
    LET J == FaultStatistic(residual)
        detected == FaultDecision(J)
    IN  [detector |-> [residuals |-> Keep(fd.residuals, residual),
                       test_statistics |-> Keep(fd.test_statistics, J),
                       detections |-> Keep(fd.detections, detected)],
         detected |-> detected, stat |-> J]

FaultDetector_reset(fd) ==
    [residuals |-> <<>>, test_statistics |-> <<>>, detections |-> <<>>]

\* AttackDetector.update_estimator(y, u, v).  The correction term multiplies
\* L_u (n x n) with the innovation column (p x 1); where numpy does not define
\* that product the call raises inside the try and the except branch returns a
\* zero residual, leaving x_u_hat as it was.
update_estimator(ad, y, u) ==
    LET u_hat == MatVec(mats.C_est, ad.x_u_hat)
        r_u == VecSub(u, u_hat)
        innov == [i \in 1..p |-> y - MatVec(mats.C, ad.x_u_hat)[i]]
    IN  IF Conformable(Shape(mats.L_u), <<p, 1>>)
        THEN [x_u_hat |-> VecAdd(VecAdd(MatVec(A_est, ad.x_u_hat),
                                        [i \in 1..n |-> Round(B_est[i][1] * y)]),
                                 MatVec(mats.L_u, innov)),
              r_u |-> r_u]
        ELSE [x_u_hat |-> ad.x_u_hat, r_u |-> Zeros(m)]

\* J_u = r_u' inv(Sigma_r_u) r_u with Sigma_r_u diagonal; detected = J_u > threshold
AttackStatistic(r_u) ==
    SumTo([i \in 1..Len(r_u) |-> r_u[i] * r_u[i]], Len(r_u)) \div mats.Sigma_r_u
AttackDecision(J_u) == J_u > mats.attack_threshold

AttackDetector_check(ad, u, y) ==
    LET est == update_estimator(ad, y, u)
        J_u == AttackStatistic(est.r_u)
        detected == AttackDecision(J_u)
    IN  [detector |-> [x_u_hat |-> est.x_u_hat,
                       residuals |-> Keep(ad.residuals, est.r_u),
                       test_statistics |-> Keep(ad.test_statistics, J_u),
                       detections |-> Keep(ad.detections, detected)],
         detected |-> detected, stat |-> J_u]

AttackDetector_reset(ad) ==
    [x_u_hat |-> Zeros(n), residuals |-> <<>>, test_statistics |-> <<>>,
     detections |-> <<>>]

\* ----------------------------------------------------------- SecureNetwork
\* encrypt_data: the ciphertext, known by the JSON text it carries.
encrypt_data(nw, data) ==
    [network |-> [nw EXCEPT !.packets_encrypted = @ + 1], token |-> [json |-> data]]
decrypt_data(token) == token.json

\* send_measurement(y); randn is the draw of np.random.randn().
send_measurement(nw, y, randn) ==
    LET nw1 == [nw EXCEPT !.packets_sent = @ + 1]
    IN  IF nw.attack_active /\ nw.attack_type = "covert"
        THEN IF ~nw.attack_magnitude.num
             THEN [network |-> nw1, y |-> y, raised |-> TRUE]
             ELSE [network |-> [nw1 EXCEPT !.packets_attacked = @ + 1],
                   y |-> y + nw.attack_magnitude.v * randn, raised |-> FALSE]
        ELSE [network |-> nw1, y |-> y, raised |-> FALSE]

\* (mutant of apply_attack) the replayed control is taken one entry further back
apply_attack_OneOlder(nw, u) ==
    LET h == nw.attack_history
        additive == nw.attack_type \in {"zero_dynamics", "covert"}
        u_attacked ==
            IF additive THEN VecAdd(u, VecScale(nw.attack_magnitude.v, Ones(m)))
            ELSE IF nw.attack_type = "replay" /\ Len(h) > ReplayLag
                 THEN h[Len(h) - ReplayLag]
                 ELSE u
        h1 == Append(h, u)
        h2 == IF Len(h1) > ReplayCap THEN Tail(h1) ELSE h1
    IN  IF additive /\ ~nw.attack_magnitude.num
        THEN [network |-> nw, u |-> u, raised |-> TRUE]
        ELSE [network |-> [nw EXCEPT !.attack_history = h2], u |-> u_attacked,
              raised |-> FALSE]
\* _apply_attack(u): the attacked control and the replay history after the call.
apply_attack(nw, u) ==
    LET h == nw.attack_history
        additive == nw.attack_type \in {"zero_dynamics", "covert"}
        u_attacked ==
            IF additive THEN VecAdd(u, VecScale(nw.attack_magnitude.v, Ones(m)))
            ELSE IF nw.attack_type = "replay" /\ Len(h) > ReplayLag
                 THEN h[Len(h) - ReplayLag + 1]
                 ELSE u
        h1 == Append(h, u)
        h2 == IF Len(h1) > ReplayCap THEN Tail(h1) ELSE h1
    IN  IF additive /\ ~nw.attack_magnitude.num
        THEN [network |-> nw, u |-> u, raised |-> TRUE]
        ELSE [network |-> [nw EXCEPT !.attack_history = h2], u |-> u_attacked,
              raised |-> FALSE]

send_control_signal(nw, u) ==
    LET nw1 == [nw EXCEPT !.packets_sent = @ + 1]
        att == apply_attack(nw1, u)
    IN  IF nw.attack_active
        THEN IF att.raised THEN [network |-> nw1, u |-> u, raised |-> TRUE]
             ELSE [network |-> [att.network EXCEPT !.packets_attacked = @ + 1],
                   u |-> att.u, raised |-> FALSE]
        ELSE [network |-> nw1, u |-> u, raised |-> FALSE]

set_attack(nw, attack_type, magnitude) ==
    [nw EXCEPT !.attack_active = TRUE, !.attack_type = attack_type,
               !.attack_magnitude = magnitude, !.attack_history = <<>>]

clear_attack(nw) ==
    [nw EXCEPT !.attack_active = FALSE, !.attack_type = "None",
               !.attack_magnitude = Num(0), !.attack_history = <<>>]

get_statistics(nw) ==
    [packets_sent |-> nw.packets_sent, packets_encrypted |-> nw.packets_encrypted,
     packets_attacked |-> nw.packets_attacked]

\* try: decrypt_data(encrypt_data(sent)) except: sent  (simulator.py 36-40, 62-66).
\* encrypt_data counts the packet only once the cipher has returned.
RoundTrip(nw, sent, trip) ==
    LET enc == encrypt_data(nw, sent)
    IN  CASE trip = "ok" -> [network |-> enc.network, received |-> decrypt_data(enc.token)]
          [] trip = "encrypt" -> [network |-> nw, received |-> sent]
          [] trip = "decrypt" -> [network |-> enc.network, received |-> sent]

\* ---------------------------------------------------------------- Database
\* (mutant of save_system_data) the row replaces one that carries the same timestamp
save_system_data_Upsert(d, timestamp, state, output, control, reference) ==
    LET row == [timestamp |-> timestamp, state |-> state, output |-> output,
                control |-> control, reference |-> reference]
        same == {i \in 1..Len(d.system_data) : d.system_data[i].timestamp = timestamp}
    IN  IF same = {} THEN [d EXCEPT !.system_data = Append(@, row)]
        ELSE [d EXCEPT !.system_data =
                 [i \in 1..Len(@) |-> IF i \in same THEN row ELSE @[i]]]
save_system_data(d, timestamp, state, output, control, reference) ==
    [d EXCEPT !.system_data = Append(@,
        [timestamp |-> timestamp, state |-> state, output |-> output,
         control |-> control, reference |-> reference])]

save_detection_results(d, timestamp, fault_stat, fault_det, attack_stat, attack_det, anomaly_type) ==
    [d EXCEPT !.detections = Append(@,
        [timestamp |-> timestamp, fault_statistic |-> fault_stat,
         fault_detected |-> fault_det, attack_statistic |-> attack_stat,
         attack_detected |-> attack_det, anomaly_type |-> anomaly_type])]

save_anomaly_event(d, timestamp, event_type, magnitude) ==
    [d EXCEPT !.anomaly_events = Append(@,
        [timestamp |-> timestamp, event_type |-> event_type, magnitude |-> magnitude])]

save_network_stats(d, timestamp, stats) ==
    [d EXCEPT !.network_stats = Append(@, [timestamp |-> timestamp, stats |-> stats])]

\* SELECT ... FROM rows ORDER BY timestamp DESC LIMIT limit: every result the
\* query may give.  Rows come by falling timestamp; SQL leaves the order among
\* rows of equal timestamp open, so each such order is a possible result.
Recent(rows, limit) ==
    LET k == IF limit < Len(rows) THEN limit ELSE Len(rows)
        picks == {s \in [1..k -> 1..Len(rows)] :
                     /\ \A i, j \in 1..k : i < j =>
                            /\ s[i] # s[j]
                            /\ rows[s[i]].timestamp >= rows[s[j]].timestamp
                     /\ \A q \in 1..Len(rows) :
                            (\A i \in 1..k : s[i] # q) =>
                                \A i \in 1..k : rows[q].timestamp <= rows[s[i]].timestamp}
    IN  {[i \in 1..k |-> rows[s[i]]] : s \in picks}

\* get_recent_data(limit): the possible {'system': ..., 'detections': ...}
get_recent_data(d, limit) ==
    {[system |-> sy, detections |-> de] :
        sy \in Recent(d.system_data, limit), de \in Recent(d.detections, limit)}

\* get_anomaly_events(limit): the possible results
get_anomaly_events(d, limit) == Recent(d.anomaly_events, limit)

\* --------------------------------------------------------- SystemSimulator
\* (mutant of classify_anomaly) the two single-detector labels exchanged
classify_anomaly_Swapped(fault_detected, attack_detected) ==
    IF fault_detected /\ attack_detected THEN "Fault and Attack"
    ELSE IF attack_detected /\ ~fault_detected THEN "System Fault"
    ELSE IF fault_detected /\ ~attack_detected THEN "Kernel Attack"
    ELSE "Normal"

\* _classify_anomaly(fault_detected, attack_detected)
classify_anomaly(fault_detected, attack_detected) ==
    IF fault_detected /\ attack_detected THEN "Fault and Attack"
    ELSE IF attack_detected /\ ~fault_detected THEN "Kernel Attack"
    ELSE IF fault_detected /\ ~attack_detected THEN "System Fault"
    ELSE "Normal"

\* ------------------------------------------------------------------ inputs
Mag == 100         \* the numeric magnitude of injected faults and attacks (1.00)
RefVal == 100      \* the reference a set_reference command carries (1.00)
WAmp == 3          \* amplitude of a non-zero process-noise draw (0.03)

FaultKinds == {"plant", "sensor", "actuator"}
AttackKinds == {"zero_dynamics", "covert", "replay"}
Magnitudes == {Num(Mag), NotNum}
WDraws == {Zeros(n), [i \in 1..n |-> IF i = 1 THEN WAmp ELSE -WAmp]}
EtaDraws == {0}
RandnDraws == {1}
\* how an encrypt/decrypt round trip ends: both calls return, encrypt_data raises,
\* or decrypt_data raises
RoundTrips == {"ok", "encrypt", "decrypt"}
MaxLimit == 2      \* the largest limit a get_history command carries
Limits == 1..MaxLimit
\* how the two saves of lines 87-105 end: both return, save_system_data raises,
\* or save_detection_results raises
Saves == {"ok", "system", "detection"}

\* -------------------------------------------------------------------- Init
LocInit ==
    [y |-> 0, y_received |-> 0, u |-> Zeros(m), y_hat |-> 0, residual |-> 0,
     u_received |-> Zeros(m), y_next |-> 0, fault_detected |-> FALSE, fault_stat |-> 0,
     attack_detected |-> FALSE, attack_stat |-> 0, anomaly_type |-> "Normal"]

NoResult ==
    [kind |-> "none", time |-> 0, state |-> Zeros(n), output |-> 0, control |-> Zeros(m),
     reference |-> 0,
     fault_detector |-> [residual |-> 0, statistic |-> 0, detected |-> FALSE,
                         threshold |-> 0],
     attack_detector |-> [statistic |-> 0, detected |-> FALSE, threshold |-> 0],
     anomaly_type |-> "Normal",
     network |-> [packets_sent |-> 0, packets_encrypted |-> 0, packets_attacked |-> 0],
     active_fault |-> FALSE, active_attack |-> FALSE]

InitMats ==
    [A |-> A, B |-> B, C |-> C, D |-> D, L |-> L, F |-> F,
     L_u |-> L_u, C_est |-> C_est, Sigma_r |-> Sigma_r, Sigma_r_u |-> Sigma_r_u,
     fault_threshold |-> FaultThreshold, attack_threshold |-> AttackThreshold]

InitPlant ==
    [x |-> Zeros(n), fault_active |-> FALSE, fault_type |-> "None",
     fault_magnitude |-> Num(0)]
InitController == [x_hat |-> Zeros(n), reference |-> 0]
InitFaultDetector == [residuals |-> <<>>, test_statistics |-> <<>>, detections |-> <<>>]
InitAttackDetector ==
    [x_u_hat |-> Zeros(n), residuals |-> <<>>, test_statistics |-> <<>>,
     detections |-> <<>>]
InitNetwork ==
    [attack_active |-> FALSE, attack_type |-> "None", attack_magnitude |-> Num(0),
     attack_history |-> <<>>, packets_sent |-> 0, packets_encrypted |-> 0,
     packets_attacked |-> 0]
InitSim == [time |-> 0, step_count |-> 0, last_u |-> Zeros(m)]
InitDb ==
    [system_data |-> <<>>, detections |-> <<>>, anomaly_events |-> <<>>,
     network_stats |-> <<>>]
NoHistory == [limit |-> 0, system |-> <<>>, detections |-> <<>>]
\* what the components hold that a tick may change: the plant state, the
\* controller's estimate, the detectors, the channel's counters and history
ComponentsOf(pl, ct, fd, ad, nw) ==
    [x |-> pl.x, x_hat |-> ct.x_hat, fault_detector |-> fd, attack_detector |-> ad,
     packets |-> get_statistics(nw), attack_history |-> nw.attack_history]

InitHist ==
    [calls |-> 0, events |-> 0, last_op |-> "construct",
     fault_cmd |-> "none", attack_cmd |-> "none", tick_time |-> 0, tick_count |-> 0,
     tick_fault_cmd |-> "none", tick_attack_cmd |-> "none", failed |-> {},
     prev |-> "none", history |-> NoHistory,
     tick_start |-> ComponentsOf(InitPlant, InitController, InitFaultDetector,
                                 InitAttackDetector, InitNetwork)]

Init ==
    /\ mats = InitMats
    /\ plant = InitPlant
    /\ controller = InitController
    /\ fault_detector = InitFaultDetector
    /\ attack_detector = InitAttackDetector
    /\ network = InitNetwork
    /\ sim = InitSim
    /\ db = InitDb
    /\ pc = "idle"
    /\ loc = LocInit
    /\ result = NoResult
    /\ log = <<>>
    /\ hist = InitHist

\* One entry of the call log: the stage, what it was given, what it gave back.
Stage(name, args, out) == [stage |-> name, args |-> args, out |-> out]

\* (mutant of After) the plant is stepped before the control has been sent
After_PlantFirst(stage) ==
    CASE stage = "read_output" -> "send_measurement"
      [] stage = "send_measurement" -> "compute_control"
      [] stage = "compute_control" -> "update_observer"
      [] stage = "update_observer" -> "plant_step"
      [] stage = "plant_step" -> "send_control_signal"
      [] stage = "send_control_signal" -> "fault_check"
      [] stage = "fault_check" -> "attack_check"
      [] stage = "attack_check" -> "classify"
      [] stage = "classify" -> "persist"
      [] stage = "persist" -> "advance"
      [] stage = "advance" -> "emit"
      [] stage = "emit" -> "idle"

\* The statement order of step()'s try block (lines 30-142): the stage that
\* follows each stage when nothing raises.
After(stage) ==
    CASE stage = "read_output" -> "send_measurement"
      [] stage = "send_measurement" -> "compute_control"
      [] stage = "compute_control" -> "update_observer"
      [] stage = "update_observer" -> "send_control_signal"
      [] stage = "send_control_signal" -> "plant_step"
      [] stage = "plant_step" -> "fault_check"
      [] stage = "fault_check" -> "attack_check"
      [] stage = "attack_check" -> "classify"
      [] stage = "classify" -> "persist"
      [] stage = "persist" -> "advance"
      [] stage = "advance" -> "emit"
      [] stage = "emit" -> "idle"

\* (mutant of AfterRoundTrip) a round trip that raises is not caught
AfterRoundTrip_Uncaught(stage, trip) == IF trip = "ok" THEN After(stage) ELSE "except"
\* lines 39-40 and 65-66: the except branch of a round trip falls through to the
\* next statement
AfterRoundTrip(stage, trip) == After(stage)

\* ------------------------------------------------------------------ step()
\* line 30: y = C @ plant.get_state()
ReadOutput ==
    /\ pc = "idle"
    /\ hist.calls < MaxTicks
    /\ LET y == MatVec(mats.C, plant.x)[1]
       IN  /\ loc' = [LocInit EXCEPT !.y = y]
           /\ log' = <<Stage("read_output", <<plant.x>>, y)>>
    /\ hist' = [hist EXCEPT !.calls = @ + 1, !.last_op = "step",
                            !.tick_time = sim.time, !.tick_count = sim.step_count,
                            !.tick_fault_cmd = hist.fault_cmd,
                            !.tick_attack_cmd = hist.attack_cmd, !.failed = {},
                            !.prev = IF hist.last_op = "step" THEN result.kind
                                     ELSE "none",
                            !.history = NoHistory,
                            !.tick_start = ComponentsOf(plant, controller, fault_detector,
                                                       attack_detector, network)]
    /\ pc' = After("read_output")
    /\ UNCHANGED <<mats, plant, controller, fault_detector, attack_detector, network,
                   sim, db, result>>

\* lines 33-40: send_measurement, then the encrypt/decrypt round trip
SendMeasurement ==
    /\ pc = "send_measurement"
    /\ \E randn \in RandnDraws, trip \in RoundTrips :
        LET sent == send_measurement(network, loc.y, randn)
            rt == RoundTrip(sent.network, sent.y, trip)
        IN  /\ log' = Append(log, Stage("send_measurement", <<loc.y>>, rt.received))
            /\ IF sent.raised
               THEN /\ trip = "ok"
                    /\ network' = sent.network
                    /\ pc' = "except"
                    /\ loc' = loc
                    /\ hist' = hist
               ELSE /\ (trip # "ok") => hist.events < MaxEvents
                    /\ network' = rt.network
                    /\ loc' = [loc EXCEPT !.y_received = rt.received]
                    /\ pc' = AfterRoundTrip("send_measurement", trip)
                    /\ hist' = IF trip = "ok" THEN hist
                               ELSE [hist EXCEPT !.events = @ + 1,
                                        !.failed = @ \cup {"measurement_round_trip"}]
    /\ UNCHANGED <<mats, plant, controller, fault_detector, attack_detector, sim, db,
                   result>>

\* lines 43-49: u = compute_control(y_received); last_u = u.copy()
ComputeControl ==
    /\ pc = "compute_control"
    /\ LET u == compute_control(controller)
       IN  /\ loc' = [loc EXCEPT !.u = u]
           /\ sim' = [sim EXCEPT !.last_u = u]
           /\ log' = Append(log, Stage("compute_control", <<loc.y_received>>, u))
    /\ pc' = After("compute_control")
    /\ UNCHANGED <<mats, plant, controller, fault_detector, attack_detector, network,
                   db, result, hist>>

\* lines 52-56: y_hat, residual = update_observer(y_received, u)
UpdateObserver ==
    /\ pc = "update_observer"
    /\ LET obs == update_observer(controller, loc.y_received, loc.u)
       IN  /\ controller' = obs.controller
           /\ loc' = [loc EXCEPT !.y_hat = obs.y_hat, !.residual = obs.innovation]
           /\ log' = Append(log, Stage("update_observer", <<loc.y_received, loc.u>>,
                                       obs.innovation))
    /\ pc' = After("update_observer")
    /\ UNCHANGED <<mats, plant, fault_detector, attack_detector, network, sim, db,
                   result, hist>>

\* lines 59-66: send_control_signal, then the encrypt/decrypt round trip
SendControl ==
    /\ pc = "send_control_signal"
    /\ \E trip \in RoundTrips :
        LET sent == send_control_signal(network, loc.u)
            rt == RoundTrip(sent.network, sent.u, trip)
        IN  /\ log' = Append(log, Stage("send_control_signal", <<loc.u>>, rt.received))
            /\ IF sent.raised
               THEN /\ trip = "ok"
                    /\ network' = sent.network
                    /\ pc' = "except"
                    /\ loc' = loc
                    /\ hist' = hist
               ELSE /\ (trip # "ok") => hist.events < MaxEvents
                    /\ network' = rt.network
                    /\ loc' = [loc EXCEPT !.u_received = rt.received]
                    /\ pc' = AfterRoundTrip("send_control_signal", trip)
                    /\ hist' = IF trip = "ok" THEN hist
                               ELSE [hist EXCEPT !.events = @ + 1,
                                        !.failed = @ \cup {"control_round_trip"}]
    /\ UNCHANGED <<mats, plant, controller, fault_detector, attack_detector, sim, db,
                   result>>

\* line 69: y_next = plant.step(u_received)
PlantStep ==
    /\ pc = "plant_step"
    /\ \E w \in WDraws, eta \in EtaDraws :
        LET st == plant_step(plant, loc.u_received, w, eta)
        IN  /\ (w # Zeros(n)) => hist.events < MaxEvents
            /\ hist' = [hist EXCEPT !.events = IF w # Zeros(n) THEN @ + 1 ELSE @]
            /\ plant' = st.plant
            /\ loc' = [loc EXCEPT !.y_next = st.y]
            /\ pc' = IF st.raised THEN "except" ELSE After("plant_step")
            /\ log' = Append(log, Stage("plant_step", <<loc.u_received>>, st.y))
    /\ UNCHANGED <<mats, controller, fault_detector, attack_detector, network, sim, db,
                   result>>

\* lines 72-75: fault_detected, fault_stat = fault_detector.check(residual).
\* check() raises (OverflowError at residual ** 2) for a residual whose square
\* leaves the float range; such magnitudes are beyond the integers of the
\* model, so whether the call raises is an input of the stage.
\* (mutant of CheckFailed) a check that raised is reported as a detection
CheckFailed_Alarm == [detected |-> TRUE, stat |-> 0]
\* lines 74-75 and 80-81: what step() takes for a check that raised
CheckFailed == [detected |-> FALSE, stat |-> 0]

FaultCheck ==
    /\ pc = "fault_check"
    /\ \E raises \in BOOLEAN :
        /\ raises => hist.events < MaxEvents
        /\ LET chk == FaultDetector_check(fault_detector, loc.residual)
           IN  IF raises
               THEN /\ fault_detector' = fault_detector
                    /\ loc' = [loc EXCEPT !.fault_detected = CheckFailed.detected,
                                          !.fault_stat = CheckFailed.stat]
                    /\ hist' = [hist EXCEPT !.events = @ + 1,
                                            !.failed = @ \cup {"fault_check"}]
               ELSE /\ fault_detector' = chk.detector
                    /\ loc' = [loc EXCEPT !.fault_detected = chk.detected,
                                          !.fault_stat = chk.stat]
                    /\ hist' = hist
    /\ log' = Append(log, Stage("fault_check", <<loc.residual>>, loc'.fault_detected))
    /\ pc' = After("fault_check")
    /\ UNCHANGED <<mats, plant, controller, attack_detector, network, sim, db, result>>

\* lines 78-81: attack_detected, attack_stat = attack_detector.check(u_received, y_received, 0.0)
AttackCheck ==
    /\ pc = "attack_check"
    /\ LET chk == AttackDetector_check(attack_detector, loc.u_received, loc.y_received)
       IN  /\ attack_detector' = chk.detector
           /\ loc' = [loc EXCEPT !.attack_detected = chk.detected,
                                 !.attack_stat = chk.stat]
    /\ log' = Append(log, Stage("attack_check", <<loc.u_received, loc.y_received, 0>>,
                                loc'.attack_detected))
    /\ pc' = After("attack_check")
    /\ UNCHANGED <<mats, plant, controller, fault_detector, network, sim, db, result,
                   hist>>

\* line 84
Classify ==
    /\ pc = "classify"
    /\ loc' = [loc EXCEPT !.anomaly_type =
                   classify_anomaly(loc.fault_detected, loc.attack_detected)]
    /\ log' = Append(log, Stage("classify", <<loc.fault_detected, loc.attack_detected>>,
                                loc'.anomaly_type))
    /\ pc' = After("classify")
    /\ UNCHANGED <<mats, plant, controller, fault_detector, attack_detector, network,
                   sim, db, result, hist>>

\* lines 87-112: the system and detection rows, and every StatsPeriod-th tick the
\* network statistics
\* (mutant of AfterSave) a save that raises ends the tick in the outer except branch
AfterSave_Escalates(saves, stats) ==
    IF saves = "ok" /\ ~stats THEN After("persist") ELSE "except"
\* lines 104-105 and 111-112: whatever the saves do, the tick goes on
AfterSave(saves, stats) == After("persist")

\* saves says how the first try block ends; stats is whether save_network_stats
\* raises.  A save that raises has inserted nothing.
Persist ==
    /\ pc = "persist"
    /\ \E saves \in Saves, stats \in BOOLEAN :
        LET due == sim.step_count % StatsPeriod = 0
            d1 == IF saves = "system" THEN db
                  ELSE save_system_data(db, sim.time, plant.x, loc.y_received,
                                        loc.u_received, controller.reference)
            d2 == IF saves # "ok" THEN d1
                  ELSE save_detection_results(d1, sim.time, loc.fault_stat,
                                              loc.fault_detected, loc.attack_stat,
                                              loc.attack_detected, loc.anomaly_type)
            d3 == IF due /\ ~stats
                  THEN save_network_stats(d2, sim.time, get_statistics(network))
                  ELSE d2
            nfail == (IF saves # "ok" THEN 1 ELSE 0) + (IF stats THEN 1 ELSE 0)
            labels == (IF saves = "system" THEN {"save_system_data"} ELSE {})
                      \cup (IF saves = "detection" THEN {"save_detection_results"} ELSE {})
                      \cup (IF stats THEN {"save_network_stats"} ELSE {})
        IN  /\ stats => due
            /\ hist.events + nfail <= MaxEvents
            /\ db' = d3
            /\ hist' = [hist EXCEPT !.events = @ + nfail, !.failed = @ \cup labels]
            /\ pc' = AfterSave(saves, stats)
    /\ log' = Append(log, Stage("persist", <<sim.time>>, Len(db'.system_data)))
    /\ UNCHANGED <<mats, plant, controller, fault_detector, attack_detector, network,
                   sim, loc, result>>

\* lines 115-116: self.time += 0.1; self.step_count += 1
AdvanceTime(s) == [s EXCEPT !.time = @ + DT, !.step_count = @ + 1]

Advance ==
    /\ pc = "advance"
    /\ sim' = AdvanceTime(sim)
    /\ log' = Append(log, Stage("advance", <<sim.time>>, sim'.time))
    /\ pc' = After("advance")
    /\ UNCHANGED <<mats, plant, controller, fault_detector, attack_detector, network,
                   db, loc, result, hist>>

\* lines 119-140: the results dict
Results ==
    [kind |-> "ok",
     time |-> sim.time,
     state |-> plant.x,
     output |-> loc.y_received,
     control |-> loc.u_received,
     reference |-> controller.reference,
     fault_detector |-> [residual |-> loc.residual, statistic |-> loc.fault_stat,
                         detected |-> loc.fault_detected,
                         threshold |-> mats.fault_threshold],
     attack_detector |-> [statistic |-> loc.attack_stat,
                          detected |-> loc.attack_detected,
                          threshold |-> mats.attack_threshold],
     anomaly_type |-> loc.anomaly_type,
     network |-> get_statistics(network),
     active_fault |-> plant.fault_active,
     active_attack |-> network.attack_active]

\* lines 119-142: build the record and return it
Emit ==
    /\ pc = "emit"
    /\ result' = Results
    /\ log' = Append(log, Stage("emit", <<sim.time>>, sim.time))
    /\ loc' = LocInit
    /\ pc' = After("emit")
    /\ UNCHANGED <<mats, plant, controller, fault_detector, attack_detector, network,
                   sim, db, hist>>

\* lines 149-170: the safe-default record
SafeDefaults ==
    [kind |-> "default",
     time |-> sim.time,
     state |-> Zeros(n),
     output |-> 0,
     control |-> Zeros(m),
     reference |-> 0,
     fault_detector |-> [residual |-> 0, statistic |-> 0, detected |-> FALSE,
                         threshold |-> DefaultFaultThreshold],
     attack_detector |-> [statistic |-> 0, detected |-> FALSE,
                          threshold |-> DefaultAttackThreshold],
     anomaly_type |-> "Normal",
     network |-> [packets_sent |-> 0, packets_encrypted |-> 0, packets_attacked |-> 0],
     active_fault |-> FALSE,
     active_attack |-> FALSE]

\* lines 144-170: the except branch of step()
SafeDefault ==
    /\ pc = "except"
    /\ result' = SafeDefaults
    /\ log' = Append(log, Stage("safe_default", <<sim.time>>, sim.time))
    /\ loc' = LocInit
    /\ pc' = "idle"
    /\ UNCHANGED <<mats, plant, controller, fault_detector, attack_detector, network,
                   sim, db, hist>>

\* ---------------------------------------------------------------- commands
\* (mutant of AtAwait) a handler may run between two stages of step()
AtAwait_Preemptive == TRUE
\* handle_command runs on the event loop of simulation_loop, and only where that
\* loop awaits (main.py 113, 121); step() is a plain call with no await in it.
AtAwait == pc = "idle"

Command(op) ==
    [hist EXCEPT !.events = @ + 1, !.last_op = op, !.failed = {}, !.history = NoHistory]

\* try: db.save_anomaly_event(...) except: pass.  raises: the insert raises.
SaveEvent(d, timestamp, event_type, magnitude, raises) ==
    IF raises THEN d ELSE save_anomaly_event(d, timestamp, event_type, magnitude)
\* the bookkeeping of a command whose event write raised
WriteFailed(h, raises) ==
    IF raises THEN [h EXCEPT !.events = @ + 1, !.failed = {"save_anomaly_event"}] ELSE h

\* inject_fault(fault_type, magnitude)
InjectFault ==
    /\ AtAwait
    /\ hist.events < MaxEvents
    /\ \E fault_type \in FaultKinds, magnitude \in Magnitudes, raises \in BOOLEAN :
        /\ raises => hist.events + 1 < MaxEvents
        /\ plant' = set_fault(plant, fault_type, magnitude)
        /\ db' = SaveEvent(db, sim.time, "fault", magnitude, raises)
        /\ hist' = WriteFailed([Command("inject_fault") EXCEPT !.fault_cmd = "inject"],
                               raises)
    /\ UNCHANGED <<mats, controller, fault_detector, attack_detector, network, sim, pc,
                   loc, result, log>>

\* inject_attack(attack_type, magnitude)
InjectAttack ==
    /\ AtAwait
    /\ hist.events < MaxEvents
    /\ \E attack_type \in AttackKinds, magnitude \in Magnitudes, raises \in BOOLEAN :
        /\ raises => hist.events + 1 < MaxEvents
        /\ network' = set_attack(network, attack_type, magnitude)
        /\ db' = SaveEvent(db, sim.time, "attack", magnitude, raises)
        /\ hist' = WriteFailed([Command("inject_attack") EXCEPT !.attack_cmd = "inject"],
                               raises)
    /\ UNCHANGED <<mats, plant, controller, fault_detector, attack_detector, sim, pc,
                   loc, result, log>>

\* clear_anomalies()
ClearAnomalies ==
    /\ AtAwait
    /\ hist.events < MaxEvents
    /\ plant' = clear_fault(plant)
    /\ network' = clear_attack(network)
    /\ \E raises \in BOOLEAN :
        /\ raises => hist.events + 1 < MaxEvents
        /\ db' = SaveEvent(db, sim.time, "clear", Num(0), raises)
        /\ hist' = WriteFailed([Command("clear_anomalies") EXCEPT
                                    !.fault_cmd = "clear", !.attack_cmd = "clear"], raises)
    /\ UNCHANGED <<mats, controller, fault_detector, attack_detector, sim, pc, loc,
                   result, log>>

\* set_reference(value)
SetReference ==
    /\ AtAwait
    /\ hist.events < MaxEvents
    /\ controller' = set_reference(controller, RefVal)
    /\ hist' = Command("set_reference")
    /\ UNCHANGED <<mats, plant, fault_detector, attack_detector, network, sim, db, pc,
                   loc, result, log>>

\* reset(): plant, controller, both detectors, the channel's attack, time, step_count
\* (mutant of ResetSim) the tick counter survives a reset
ResetSim_KeepCount(s) == [s EXCEPT !.time = 0]
ResetSim(s) == [s EXCEPT !.time = 0, !.step_count = 0]

\* (mutant of Reset) the reset designs the observer again and lands on the
\* fallback gain of _design_observer
Reset_Redesign ==
    /\ pc = "idle"
    /\ hist.events < MaxEvents
    /\ plant' = plant_reset(plant)
    /\ controller' = controller_reset(controller)
    /\ fault_detector' = FaultDetector_reset(fault_detector)
    /\ attack_detector' = AttackDetector_reset(attack_detector)
    /\ network' = clear_attack(network)
    /\ sim' = ResetSim(sim)
    /\ mats' = [mats EXCEPT !.L = << <<MatScale \div 2>>, <<MatScale \div 2>> >>]
    /\ hist' = [Command("reset") EXCEPT !.fault_cmd = "clear", !.attack_cmd = "clear"]
    /\ UNCHANGED <<db, pc, loc, result, log>>

Reset ==
    /\ AtAwait
    /\ hist.events < MaxEvents
    /\ plant' = plant_reset(plant)
    /\ controller' = controller_reset(controller)
    /\ fault_detector' = FaultDetector_reset(fault_detector)
    /\ attack_detector' = AttackDetector_reset(attack_detector)
    /\ network' = clear_attack(network)
    /\ sim' = ResetSim(sim)
    /\ hist' = [Command("reset") EXCEPT !.fault_cmd = "clear", !.attack_cmd = "clear"]
    /\ UNCHANGED <<mats, db, pc, loc, result, log>>

\* get_history: history = db.get_recent_data(limit), handed to broadcast as the
\* message {'type': 'history', 'data': history}
GetHistory ==
    /\ AtAwait
    /\ hist.events < MaxEvents
    /\ \E limit \in Limits : \E history \in get_recent_data(db, limit) :
        hist' = [Command("get_history") EXCEPT
                    !.history = [limit |-> limit, system |-> history.system,
                                 detections |-> history.detections]]
    /\ UNCHANGED <<mats, plant, controller, fault_detector, attack_detector, network,
                   sim, db, pc, loc, result, log>>

Next ==
    \/ ReadOutput \/ SendMeasurement \/ ComputeControl \/ UpdateObserver
    \/ SendControl \/ PlantStep \/ FaultCheck \/ AttackCheck \/ Classify
    \/ Persist \/ Advance \/ Emit \/ SafeDefault
    \/ InjectFault \/ InjectAttack \/ ClearAnomalies \/ SetReference \/ Reset
    \/ GetHistory

Spec == Init /\ [][Next]_vars

\* ------------------------------------------------- the detectors on their own
\* The two detectors driven directly, check after check as a tick does (lines
\* 73 and 79 of simulator.py), far enough to fill the histories.  hist counts
\* the checks and keeps every checked entry since the last reset.
MaxChecks == 1003   \* checks of each detector explored in one behaviour
MaxResets == 1      \* resets explored in one behaviour
ResidualPeriod == 7 \* the residual inputs cycle through this many values
ResidualStep == 5   \* distance between two residual input values (0.05)

ResidualInput(k) == (k % ResidualPeriod) * ResidualStep
ControlInput(k) == [i \in 1..m |-> IF i = 1 THEN ResidualInput(k) ELSE 0]

InitHistory ==
    /\ mats = InitMats
    /\ plant = InitPlant
    /\ controller = InitController
    /\ fault_detector = InitFaultDetector
    /\ attack_detector = InitAttackDetector
    /\ network = InitNetwork
    /\ sim = InitSim
    /\ db = InitDb
    /\ pc = "fault_check"
    /\ loc = LocInit
    /\ result = NoResult
    /\ log = <<>>
    /\ hist = [checks |-> 0, resets |-> 0, fault_all |-> <<>>, attack_all |-> <<>>]

\* fault_detector.check(residual)
HistFaultCheck ==
    /\ pc = "fault_check"
    /\ hist.checks < MaxChecks
    /\ LET r == ResidualInput(hist.checks)
           chk == FaultDetector_check(fault_detector, r)
       IN  /\ fault_detector' = chk.detector
           /\ hist' = [hist EXCEPT !.checks = @ + 1,
                                   !.fault_all = Append(@, <<r, chk.stat, chk.detected>>)]
    /\ pc' = "attack_check"
    /\ UNCHANGED <<mats, plant, controller, attack_detector, network, sim, db, loc,
                   result, log>>

\* attack_detector.check(u, y, 0.0)
HistAttackCheck ==
    /\ pc = "attack_check"
    /\ LET u == ControlInput(hist.checks)
           chk == AttackDetector_check(attack_detector, u, 0)
       IN  /\ attack_detector' = chk.detector
           /\ hist' = [hist EXCEPT !.attack_all =
                           Append(@, <<chk.detector.residuals[Len(chk.detector.residuals)],
                                       chk.stat, chk.detected>>)]
    /\ pc' = "fault_check"
    /\ UNCHANGED <<mats, plant, controller, fault_detector, network, sim, db, loc,
                   result, log>>

\* fault_detector.reset() and attack_detector.reset(), early in a run or on
\* full histories
HistReset ==
    /\ pc = "fault_check"
    /\ hist.resets < MaxResets
    /\ Len(fault_detector.residuals) \in {2, HistoryCap}
    /\ fault_detector' = FaultDetector_reset(fault_detector)
    /\ attack_detector' = AttackDetector_reset(attack_detector)
    /\ hist' = [hist EXCEPT !.resets = @ + 1, !.fault_all = <<>>, !.attack_all = <<>>]
    /\ UNCHANGED <<mats, plant, controller, network, sim, db, pc, loc, result, log>>

NextHistory == HistFaultCheck \/ HistAttackCheck \/ HistReset

SpecHistory == InitHistory /\ [][NextHistory]_vars

\* ------------------------------------------------------------ construction
\* The constructors, run in the order of DualDetectionSystem.__init__ /
\* test_backend, on the shapes of the arrays: loc holds the shape of every
\* attribute assigned so far, hist the dimensions of the plant.  numpy raises
\* ValueError on a product whose inner dimensions differ and on a reshape that
\* changes the number of elements; nothing in the constructors catches it.
MaxDim == 2        \* plant dimensions n, m, p are drawn from 1..MaxDim

Unset == <<0, 0>>
ReshapeOk(shape, rows, cols) == shape[1] * shape[2] = rows * cols

InitBuild ==
    /\ mats = InitMats
    /\ plant = InitPlant
    /\ controller = InitController
    /\ fault_detector = InitFaultDetector
    /\ attack_detector = InitAttackDetector
    /\ network = InitNetwork
    /\ sim = InitSim
    /\ db = InitDb
    /\ pc = "Plant"
    /\ loc = [A |-> Unset, B |-> Unset, C |-> Unset, D |-> Unset, L |-> Unset,
              F |-> Unset, L_u |-> Unset, A_est |-> Unset, B_est |-> Unset,
              C_est |-> Unset, Sigma_r_u |-> Unset]
    /\ result = NoResult
    /\ log = <<>>
    /\ \E dn \in 1..MaxDim, dm \in 1..MaxDim, dp \in 1..MaxDim :
           hist = [n |-> dn, m |-> dm, p |-> dp]

BuildFrame ==
    UNCHANGED <<mats, plant, controller, fault_detector, attack_detector, network,
                sim, db, result, hist>>

\* Plant.__init__ (plant.py 11-16): A is n x n, B n x m, C p x n, D p x m
BuildPlant ==
    /\ pc = "Plant"
    /\ loc' = [loc EXCEPT !.A = <<hist.n, hist.n>>, !.B = <<hist.n, hist.m>>,
                          !.C = <<hist.p, hist.n>>, !.D = <<hist.p, hist.m>>]
    /\ log' = Append(log, "Plant")
    /\ pc' = "_design_observer"
    /\ BuildFrame

\* Controller._design_observer (controller.py 39-54): the Riccati solve with the
\* 1 x 1 measurement covariance R succeeds only for p = 1, and gives L reshaped
\* to n x p; any failure is caught and leaves the 2 x 1 fallback gain.
BuildObserver ==
    /\ pc = "_design_observer"
    /\ \E solved \in BOOLEAN :
        /\ solved => hist.p = 1
        /\ loc' = [loc EXCEPT !.L = IF solved THEN <<hist.n, hist.p>> ELSE <<2, 1>>]
    /\ log' = Append(log, "_design_observer")
    /\ pc' = "_design_controller"
    /\ BuildFrame

\* Controller._design_controller (controller.py 56-71): F is m x n, or the 2 x 2
\* fallback gain when the solve fails.
BuildController ==
    /\ pc = "_design_controller"
    /\ \E solved \in BOOLEAN :
        loc' = [loc EXCEPT !.F = IF solved THEN <<hist.m, hist.n>> ELSE <<2, 2>>]
    /\ log' = Append(log, "_design_controller")
    /\ pc' = "FaultDetector"
    /\ BuildFrame

\* FaultDetector.__init__ (detectors.py 14-27): scalars and empty lists
BuildFaultDetector ==
    /\ pc = "FaultDetector"
    /\ log' = Append(log, "FaultDetector")
    /\ pc' = "L_u"
    /\ UNCHANGED loc
    /\ BuildFrame

\* detectors.py 100: L_u = np.eye(n) * 0.5
BuildLu ==
    /\ pc = "L_u"
    /\ loc' = [loc EXCEPT !.L_u = <<hist.n, hist.n>>]
    /\ log' = Append(log, "L_u")
    /\ pc' = "A_est"
    /\ BuildFrame

\* detectors.py 103: A_est = controller.A - L_u @ controller.C
BuildAest ==
    /\ pc = "A_est"
    /\ IF Conformable(loc.L_u, loc.C)
       THEN /\ loc' = [loc EXCEPT !.A_est = <<loc.L_u[1], loc.C[2]>>]
            /\ pc' = "B_est"
       ELSE /\ loc' = loc
            /\ pc' = "raised"
    /\ log' = Append(log, "A_est")
    /\ BuildFrame

\* detectors.py 106: B_est = L_u.reshape(n, 1)
BuildBest ==
    /\ pc = "B_est"
    /\ IF ReshapeOk(loc.L_u, hist.n, 1)
       THEN /\ loc' = [loc EXCEPT !.B_est = <<hist.n, 1>>]
            /\ pc' = "C_est"
       ELSE /\ loc' = loc
            /\ pc' = "raised"
    /\ log' = Append(log, "B_est")
    /\ BuildFrame

\* detectors.py 109-112 and 87-92: C_est = controller.F, Sigma_r_u = 0.01 * eye(m),
\* the threshold and the empty histories
BuildCest ==
    /\ pc = "C_est"
    /\ loc' = [loc EXCEPT !.C_est = loc.F, !.Sigma_r_u = <<hist.m, hist.m>>]
    /\ log' = Append(log, "C_est")
    /\ pc' = "SystemSimulator"
    /\ BuildFrame

\* SecureNetwork() and SystemSimulator(...): no array arithmetic
BuildSimulator ==
    /\ pc = "SystemSimulator"
    /\ log' = Append(log, "SystemSimulator")
    /\ pc' = "built"
    /\ UNCHANGED loc
    /\ BuildFrame

NextBuild ==
    \/ BuildPlant \/ BuildObserver \/ BuildController \/ BuildFaultDetector
    \/ BuildLu \/ BuildAest \/ BuildBest \/ BuildCest \/ BuildSimulator

SpecBuild == InitBuild /\ [][NextBuild]_vars

\* ------------------------------------------------ the loop and its listeners
\* simulation_loop, broadcast and websocket_handler of main.py all run on one
\* event loop. A task runs until it awaits: the loop task at ws.send_json and at
\* asyncio.sleep, a handler while it waits for its socket. step() is taken here
\* as one call that returns a record and advances the counters of a normal tick;
\* its stages are the actions of Spec. State: hist.websockets is self.websockets,
\* hist.received[ws] the rounds whose message listener ws was sent, loc the frame
\* of the running broadcast (the set iterator and the local set disconnected).
MaxListeners == 3     \* listeners that ever connect
MaxRounds == 2        \* iterations of the simulation loop
Listeners == 1..MaxListeners

NoMessage == [type |-> "none", round |-> 0]
NoBroadcast == [live |-> FALSE, todo |-> {}, size |-> 0, stayed |-> {}, disconnected |-> {}, ws |-> 0]

InitServe ==
    /\ mats = InitMats
    /\ plant = InitPlant
    /\ controller = InitController
    /\ fault_detector = InitFaultDetector
    /\ attack_detector = InitAttackDetector
    /\ network = InitNetwork
    /\ sim = InitSim
    /\ db = InitDb
    /\ pc = "loop"
    /\ loc = NoBroadcast
    /\ result = NoMessage
    /\ log = <<>>
    /\ hist = [websockets |-> {}, seen |-> {}, round |-> 0,
               received |-> [ws \in Listeners |-> <<>>]]

CoreFrame ==
    UNCHANGED <<mats, plant, controller, fault_detector, attack_detector, network, db>>

\* the loop task is suspended at an await, so another task may run
Suspended == pc \in {"send", "sleep"}

\* the iterator of `for ws in self.websockets` (a snapshot of the size, and the
\* elements it has still to yield) with the listeners present at its creation
set_iter(websockets) ==
    [live |-> TRUE, todo |-> websockets, size |-> Cardinality(websockets),
     stayed |-> websockets, disconnected |-> {}, ws |-> 0]

\* results = self.simulator.step(); await self.broadcast({'type': 'update', ...})
\* up to the creation of the iterator: `if self.websockets:` skips an empty set
LoopStep ==
    /\ pc = "loop"
    /\ hist.round < MaxRounds
    /\ \E normal \in BOOLEAN :
           sim' = IF normal
                  THEN [sim EXCEPT !.time = @ + DT, !.step_count = @ + 1]
                  ELSE sim
    /\ hist' = [hist EXCEPT !.round = @ + 1]
    /\ result' = [type |-> "update", round |-> hist.round + 1]
    /\ IF hist.websockets = {}
       THEN pc' = "sleep" /\ loc' = NoBroadcast
       ELSE pc' = "next" /\ loc' = set_iter(hist.websockets)
    /\ UNCHANGED log
    /\ CoreFrame

\* the iterator's next(): a set whose size differs from the snapshot raises
\* RuntimeError (Set changed size during iteration), which is outside the try of
\* the loop body, leaves broadcast and is caught by simulation_loop's except
IterRaises == Cardinality(hist.websockets) # loc.size

IterNext ==
    /\ pc = "next"
    /\ ~IterRaises
    /\ loc.todo # {}
    /\ \E ws \in loc.todo :
           loc' = [loc EXCEPT !.ws = ws, !.todo = @ \ {ws}]
    /\ pc' = "send"
    /\ UNCHANGED <<sim, hist, result, log>>
    /\ CoreFrame

IterError ==
    /\ pc = "next"
    /\ IterRaises
    /\ log' = Append(log, "Simulation error")
    /\ loc' = [loc EXCEPT !.live = FALSE]
    /\ pc' = "sleep"
    /\ UNCHANGED <<sim, hist, result>>
    /\ CoreFrame

\* await ws.send_json(message) returns or raises; a send that raises is caught
\* inside the loop body and the listener is added to disconnected
SendDone ==
    /\ pc = "send"
    /\ \E ok \in BOOLEAN :
           IF ok
           THEN /\ hist' = [hist EXCEPT !.received[loc.ws] = Append(@, result.round)]
                /\ loc' = [loc EXCEPT !.ws = 0]
           ELSE /\ loc' = [loc EXCEPT !.ws = 0, !.disconnected = @ \cup {loc.ws}]
                /\ UNCHANGED hist
    /\ pc' = "next"
    /\ UNCHANGED <<sim, result, log>>
    /\ CoreFrame

\* the iterator is exhausted: self.websockets -= disconnected, broadcast returns
IterDone ==
    /\ pc = "next"
    /\ ~IterRaises
    /\ loc.todo = {}
    /\ hist' = [hist EXCEPT !.websockets = @ \ loc.disconnected]
    /\ loc' = [loc EXCEPT !.live = FALSE]
    /\ pc' = "sleep"
    /\ UNCHANGED <<sim, result, log>>
    /\ CoreFrame

\* await asyncio.sleep(0.1) returns; the frame of the broadcast is gone
Wake ==
    /\ pc = "sleep"
    /\ pc' = "loop"
    /\ loc' = NoBroadcast
    /\ UNCHANGED <<sim, hist, result, log>>
    /\ CoreFrame

\* websocket_handler: self.websockets.add(ws). With an iterator live the add may
\* rebuild the set's table, after which the iterator may yield any of the
\* elements again or pass them by
Connect ==
    /\ Suspended
    /\ \E ws \in Listeners \ hist.seen :
           /\ hist' = [hist EXCEPT !.websockets = @ \cup {ws}, !.seen = @ \cup {ws}]
           /\ IF loc.live
              THEN \E todo \in SUBSET (hist.websockets \cup {ws}) :
                       loc' = [loc EXCEPT !.todo = todo]
              ELSE UNCHANGED loc
    /\ UNCHANGED <<sim, pc, result, log>>
    /\ CoreFrame

\* websocket_handler: finally self.websockets.discard(ws)
Disconnect ==
    /\ Suspended
    /\ \E ws \in hist.websockets :
           /\ hist' = [hist EXCEPT !.websockets = @ \ {ws}]
           /\ loc' = IF loc.live
                     THEN [loc EXCEPT !.todo = @ \ {ws}, !.stayed = @ \ {ws}]
                     ELSE loc
    /\ UNCHANGED <<sim, pc, result, log>>
    /\ CoreFrame

NextServe ==
    \/ LoopStep \/ IterNext \/ IterError \/ SendDone \/ IterDone \/ Wake
    \/ Connect \/ Disconnect

SpecServe == InitServe /\ [][NextServe]_vars

\* ------------------------------------------------- the channel on its own
\* send_control_signal driven send after send, as line 59 of simulator.py does
\* once a tick, far enough to fill the replay history, with set_attack and
\* clear_attack in between.  Every control submitted is different from every
\* other.  hist keeps the controls submitted and the controls delivered since
\* the last set_attack / clear_attack.
MaxSends == 120     \* send_control_signal calls explored in one behaviour
MaxSets == 2        \* set_attack / clear_attack calls explored in one behaviour
ReplayKinds == {"replay", "covert"}
\* the numbers of sends after which a command is explored
CommandPoints == {0, 5, ReplayLag + 2, ReplayCap + 2}

ReplayControl(k) == [i \in 1..m |-> IF i = 1 THEN k ELSE -k]

InitReplay ==
    /\ mats = InitMats
    /\ plant = InitPlant
    /\ controller = InitController
    /\ fault_detector = InitFaultDetector
    /\ attack_detector = InitAttackDetector
    /\ network = InitNetwork
    /\ sim = InitSim
    /\ db = InitDb
    /\ pc = "send_control_signal"
    /\ loc = LocInit
    /\ result = NoResult
    /\ log = <<>>
    /\ hist = [sends |-> 0, sets |-> 0, last_op |-> "construct", submitted |-> <<>>,
               delivered |-> <<>>]

ReplayFrame ==
    UNCHANGED <<mats, plant, controller, fault_detector, attack_detector, sim, db, pc,
                loc, result, log>>

\* u_received = network.send_control_signal(u)
ReplaySend ==
    /\ hist.sends < MaxSends
    /\ LET u == ReplayControl(hist.sends + 1)
           out == send_control_signal(network, u)
       IN  /\ network' = out.network
           /\ hist' = [hist EXCEPT !.sends = @ + 1, !.last_op = "send",
                                   !.submitted = Append(@, u),
                                   !.delivered = Append(@, out.u)]
    /\ ReplayFrame

\* network.set_attack(attack_type, magnitude)
ReplaySetAttack ==
    /\ hist.sets < MaxSets
    /\ Len(hist.submitted) \in CommandPoints
    /\ \E kind \in ReplayKinds :
           network' = set_attack(network, kind, Num(Mag))
    /\ hist' = [hist EXCEPT !.sets = @ + 1, !.last_op = "set_attack",
                            !.submitted = <<>>, !.delivered = <<>>]
    /\ ReplayFrame

\* network.clear_attack()
ReplayClearAttack ==
    /\ hist.sets < MaxSets
    /\ Len(hist.submitted) \in CommandPoints
    /\ network' = clear_attack(network)
    /\ hist' = [hist EXCEPT !.sets = @ + 1, !.last_op = "clear_attack",
                            !.submitted = <<>>, !.delivered = <<>>]
    /\ ReplayFrame

NextReplay == ReplaySend \/ ReplaySetAttack \/ ReplayClearAttack

SpecReplay == InitReplay /\ [][NextReplay]_vars

\* ================================================================== claims
StageNames == [i \in 1..Len(log) |-> log[i].stage]
TickOrder ==
    <<"read_output", "send_measurement", "compute_control", "update_observer",
      "send_control_signal", "plant_step", "fault_check", "attack_check", "classify",
      "persist", "advance", "emit">>
IsPrefix(s, t) == Len(s) <= Len(t) /\ \A i \in 1..Len(s) : s[i] = t[i]
At(i, name) == Len(log) >= i /\ log[i].stage = name

\* The calls of one step() so far are an initial part of the pipeline, each stage
\* once and in order, possibly cut short by the except branch; and each stage was
\* given the values the stages before it produced.
C1_StagesInOrder ==
    /\ \/ IsPrefix(StageNames, TickOrder)
       \/ /\ Len(log) >= 2
          /\ log[Len(log)].stage = "safe_default"
          /\ IsPrefix(SubSeq(StageNames, 1, Len(log) - 1), TickOrder)
    /\ At(3, "compute_control") => log[3].args = <<log[2].out>>
    /\ At(4, "update_observer") => log[4].args = <<log[2].out, log[3].out>>
    /\ At(5, "send_control_signal") => log[5].args = <<log[3].out>>
    /\ At(6, "plant_step") => log[6].args = <<log[5].out>>
    /\ At(7, "fault_check") => log[7].args = <<log[4].out>>
    /\ At(8, "attack_check") => log[8].args = <<log[5].out, log[2].out, 0>>
    /\ At(9, "classify") => log[9].args = <<log[7].out, log[8].out>>
    /\ (pc = "idle" /\ result.kind = "ok") => StageNames = TickOrder

\* A step() begins only when the one before it has returned.
C1_TickStart ==
    hist'.calls # hist.calls =>
        /\ pc = "idle"
        /\ hist'.calls = hist.calls + 1
        /\ StageNames' = <<"read_output">>

\* C1: in every successful step() the stages run exactly once each, in the order
\* read y, send_measurement, compute_control, update_observer (received y, own u),
\* send_control_signal, Plant.step (received u), FaultDetector.check (residual),
\* AttackDetector.check (received u, received y, 0), classification, persistence,
\* advance of time; no stage of a tick starts before the previous tick has ended.
C1_PipelineOrder == []C1_StagesInOrder /\ [][C1_TickStart]_vars

C1_Witness ==
    /\ pc = "idle"
    /\ result.kind = "ok"
    /\ hist.calls >= 2
    /\ StageNames = TickOrder
    /\ network.attack_active

\* The decision table of the claim.
LabelTable(f, a) ==
    CASE ~f /\ ~a -> "Normal"
      [] f /\ ~a -> "System Fault"
      [] ~f /\ a -> "Kernel Attack"
      [] f /\ a -> "Fault and Attack"

\* C2: the classifier maps (false,false) to Normal, (true,false) to System Fault,
\* (false,true) to Kernel Attack and (true,true) to Fault and Attack, and the
\* label of every result record is the classifier applied to the two detection
\* booleans of that same record.
C2_Classifier ==
    /\ \A f \in BOOLEAN, a \in BOOLEAN : classify_anomaly(f, a) = LabelTable(f, a)
    /\ result.kind # "none" =>
           result.anomaly_type = LabelTable(result.fault_detector.detected,
                                            result.attack_detector.detected)
    /\ \A i \in 1..Len(db.detections) :
           db.detections[i].anomaly_type =
               LabelTable(db.detections[i].fault_detected,
                          db.detections[i].attack_detected)

C2_Witness ==
    /\ result.kind = "ok"
    /\ result.fault_detector.detected
    /\ result.anomaly_type = "System Fault"

\* C3: for both detectors, every decision kept in the history is true exactly
\* when the statistic kept with it is strictly greater than the threshold, and
\* the same holds for the (statistic, detected, threshold) of each detector in
\* every result record, the safe-default record and the records of ticks whose
\* check failed included.
C3_DetectedIffAbove ==
    /\ Len(fault_detector.detections) = Len(fault_detector.test_statistics)
    /\ \A i \in 1..Len(fault_detector.detections) :
           fault_detector.detections[i] <=>
               (fault_detector.test_statistics[i] > mats.fault_threshold)
    /\ Len(attack_detector.detections) = Len(attack_detector.test_statistics)
    /\ \A i \in 1..Len(attack_detector.detections) :
           attack_detector.detections[i] <=>
               (attack_detector.test_statistics[i] > mats.attack_threshold)
    /\ pc \in {"attack_check", "classify", "persist", "advance", "emit"} =>
           (loc.fault_detected <=> (loc.fault_stat > mats.fault_threshold))
    /\ pc \in {"classify", "persist", "advance", "emit"} =>
           (loc.attack_detected <=> (loc.attack_stat > mats.attack_threshold))
    /\ result.kind # "none" =>
           /\ result.fault_detector.detected <=>
                  (result.fault_detector.statistic > result.fault_detector.threshold)
           /\ result.attack_detector.detected <=>
                  (result.attack_detector.statistic > result.attack_detector.threshold)

C3_Witness ==
    /\ result.kind = "ok"
    /\ result.fault_detector.detected
    /\ Len(fault_detector.detections) >= 2
    /\ fault_detector.detections[Len(fault_detector.detections)]
    /\ ~fault_detector.detections[1]

\* C5: after reset() the plant state, the controller's estimate and reference and
\* the attack detector's estimate are zero, both detectors' histories are empty,
\* the tick counter and the time are zero, and no fault and no attack is active.
C5_ResetClears ==
    hist.last_op = "reset" =>
        /\ plant.x = Zeros(n)
        /\ controller.x_hat = Zeros(n)
        /\ controller.reference = 0
        /\ attack_detector.x_u_hat = Zeros(n)
        /\ fault_detector.residuals = <<>>
        /\ fault_detector.test_statistics = <<>>
        /\ fault_detector.detections = <<>>
        /\ attack_detector.residuals = <<>>
        /\ attack_detector.test_statistics = <<>>
        /\ attack_detector.detections = <<>>
        /\ sim.step_count = 0
        /\ sim.time = 0
        /\ ~plant.fault_active
        /\ ~network.attack_active

\* a reset of a system that has run ticks with a fault injected
C5_Witness ==
    /\ hist.last_op = "reset"
    /\ hist.fault_cmd = "clear"
    /\ hist.calls >= 2
    /\ Len(db.anomaly_events) >= 1
    /\ db.anomaly_events[1].event_type = "fault"
    /\ result.kind = "ok"
    /\ result.active_fault
    /\ result.state # Zeros(n)

\* C6: the system matrices, the gains L and F, the attack detector's estimator
\* matrices, the residual covariances and both thresholds keep in every
\* reachable state the values they had after construction.
C6_ParametersFixed == mats = InitMats

C6_Witness ==
    /\ hist.last_op = "reset"
    /\ hist.calls >= 1
    /\ hist.events >= 2
    /\ mats.L = L
    /\ mats.F = F

\* what each kind of operation leaves of the clock
C8_ClockSteps ==
    /\ (hist'.events # hist.events /\ hist'.last_op \in
            {"inject_fault", "inject_attack", "clear_anomalies", "set_reference"})
           => (sim'.time = sim.time /\ sim'.step_count = sim.step_count)
    /\ sim'.step_count # sim.step_count =>
           \/ (sim'.step_count = sim.step_count + 1 /\ sim'.time = sim.time + DT
               /\ pc = "advance")
           \/ (sim'.step_count = 0 /\ sim'.time = 0 /\ hist'.last_op = "reset")
    /\ sim'.time # sim.time => sim'.step_count # sim.step_count

C8_ClockInv ==
    /\ pc = "idle" => sim.time = DT * sim.step_count
    /\ (pc = "idle" /\ hist.last_op = "step" /\ result.kind = "ok") =>
           (sim.step_count = hist.tick_count + 1 /\ sim.time = hist.tick_time + DT)
    /\ (pc = "idle" /\ hist.last_op = "step" /\ result.kind = "default") =>
           (sim.step_count = hist.tick_count /\ sim.time = hist.tick_time)
    /\ hist.last_op = "reset" => (sim.step_count = 0 /\ sim.time = 0)

\* C8: the time is the increment times the tick counter in every state; a
\* successful step() adds one to the counter and one increment to the time,
\* reset() zeroes both, and neither a command nor a step() that ends in the
\* safe-default path changes either.
C8_TimeIsTicks == []C8_ClockInv /\ [][C8_ClockSteps]_vars

\* a safe-default step after a successful one, the clock unmoved
C8_Witness ==
    /\ pc = "idle"
    /\ hist.last_op = "step"
    /\ result.kind = "default"
    /\ sim.step_count = 1
    /\ sim.time = DT

\* C9 (as claimed): the time field of a successful tick's record is the time at
\* which the tick started, equal to the timestamp of the rows persisted for it.
C9_ResultTimeIsTickTime ==
    (pc = "idle" /\ hist.last_op = "step" /\ result.kind = "ok") =>
        /\ result.time = hist.tick_time
        /\ result.time = db.system_data[Len(db.system_data)].timestamp
        /\ result.time = db.detections[Len(db.detections)].timestamp

\* what each command changes and what it leaves alone
C10_CommandFrames ==
    /\ (hist'.events # hist.events /\ hist'.last_op = "inject_fault") =>
           /\ plant'.fault_active
           /\ plant'.x = plant.x
           /\ db' = SaveEvent(db, sim.time, "fault", plant'.fault_magnitude,
                              "save_anomaly_event" \in hist'.failed)
           /\ UNCHANGED <<mats, controller, fault_detector, attack_detector, network,
                          sim>>
    /\ (hist'.events # hist.events /\ hist'.last_op = "inject_attack") =>
           /\ network'.attack_active
           /\ get_statistics(network') = get_statistics(network)
           /\ db' = SaveEvent(db, sim.time, "attack", network'.attack_magnitude,
                              "save_anomaly_event" \in hist'.failed)
           /\ UNCHANGED <<mats, plant, controller, fault_detector, attack_detector,
                          sim>>
    /\ (hist'.events # hist.events /\ hist'.last_op = "clear_anomalies") =>
           /\ ~plant'.fault_active /\ plant'.fault_type = "None"
           /\ plant'.fault_magnitude = Num(0)
           /\ plant'.x = plant.x
           /\ ~network'.attack_active /\ network'.attack_type = "None"
           /\ network'.attack_magnitude = Num(0)
           /\ get_statistics(network') = get_statistics(network)
           /\ db' = SaveEvent(db, sim.time, "clear", Num(0),
                              "save_anomaly_event" \in hist'.failed)
           /\ UNCHANGED <<mats, controller, fault_detector, attack_detector, sim>>
    /\ (hist'.events # hist.events /\ hist'.last_op = "set_reference") =>
           /\ controller'.x_hat = controller.x_hat
           /\ UNCHANGED <<mats, plant, fault_detector, attack_detector, network, sim,
                          db>>

C10_FlagsInv ==
    (pc = "idle" /\ hist.last_op = "step" /\ result.kind = "ok") =>
        /\ result.active_fault <=> (hist.tick_fault_cmd = "inject")
        /\ result.active_attack <=> (hist.tick_attack_cmd = "inject")

\* C10: in a successful tick's record active_fault is true exactly when the last
\* fault-affecting command before the tick was inject_fault (clear_anomalies and
\* reset clear), active_attack likewise for inject_attack; inject_fault changes
\* only the plant's injection state, inject_attack only the channel's attack
\* state, clear_anomalies makes both inactive, set_reference changes only the
\* controller's reference.  Beside that, each of the first three commands appends
\* one row to the anomaly events of the database (none when the insert raises),
\* and nothing else.
C10_ActiveFlags == []C10_FlagsInv /\ [][C10_CommandFrames]_vars

\* a tick after inject_fault and then clear_anomalies reports no active fault
C10_Witness ==
    /\ pc = "idle"
    /\ hist.last_op = "step"
    /\ result.kind = "ok"
    /\ hist.tick_fault_cmd = "clear"
    /\ ~result.active_fault
    /\ Len(db.anomaly_events) = 2
    /\ db.anomaly_events[1].event_type = "fault"

\* what a stage can observe of the commands: both injection states and the reference
Injection ==
    <<plant.fault_active, plant.fault_type, plant.fault_magnitude,
      network.attack_active, network.attack_type, network.attack_magnitude,
      controller.reference>>

\* from the first stage of a tick to its last nothing changes what the commands set,
\* and no command is recorded
C11_TickIsAtomic ==
    (pc # "idle" \/ pc' # "idle") =>
        /\ Injection' = Injection
        /\ hist'.fault_cmd = hist.fault_cmd
        /\ hist'.attack_cmd = hist.attack_cmd
        /\ hist'.last_op = "step"

\* every stage works on the injection state the last command before the tick left
C11_StagesSeeLastCommand ==
    pc # "idle" =>
        /\ hist.tick_fault_cmd = hist.fault_cmd
        /\ hist.tick_attack_cmd = hist.attack_cmd
        /\ plant.fault_active <=> (hist.fault_cmd = "inject")
        /\ network.attack_active <=> (hist.attack_cmd = "inject")

\* C11: no command is applied between the first and the last stage of a tick:
\* every stage of a tick observes the same fault injection state, attack injection
\* state and reference, and a command issued after a tick has started is observed
\* by all stages of the next tick.
C11_NoCommandInsideTick == []C11_StagesSeeLastCommand /\ [][C11_TickIsAtomic]_vars

\* inside the second tick, a fault injected after the first tick had returned
C11_Witness ==
    /\ pc = "classify"
    /\ hist.calls >= 2
    /\ result.kind = "ok"
    /\ ~result.active_fault
    /\ hist.tick_fault_cmd = "inject"
    /\ plant.fault_active

\* C12 (as claimed): a step() whose core computation fails returns the safe-default
\* record (zero state, output, control and reference, both detectors with
\* statistic 0 and no detection, label Normal) with the tick counter and the time
\* as they were before the tick, and the step() called next runs a normal tick.
C12_SafeDefaultThenNormal ==
    /\ (pc = "idle" /\ hist.last_op = "step" /\ result.kind = "default") =>
           /\ result.state = Zeros(n) /\ result.output = 0
           /\ result.control = Zeros(m) /\ result.reference = 0
           /\ result.fault_detector.statistic = 0 /\ ~result.fault_detector.detected
           /\ result.attack_detector.statistic = 0 /\ ~result.attack_detector.detected
           /\ result.anomaly_type = "Normal"
           /\ sim.step_count = hist.tick_count /\ sim.time = hist.tick_time
    /\ (pc = "idle" /\ hist.last_op = "step" /\ hist.prev = "default") =>
           result.kind = "ok"

SinkCalls == {"save_system_data", "save_detection_results", "save_network_stats"}

\* the persistence stage, whatever its saves do, touches nothing but the database
\* and hands over to the advance of time; a command whose event write raises
\* sets the injection state all the same and writes nothing
C13_SinkStep ==
    /\ pc = "persist" =>
           /\ pc' = "advance"
           /\ UNCHANGED <<mats, plant, controller, fault_detector, attack_detector,
                          network, sim, loc, result>>
    /\ (hist'.events # hist.events /\ "save_anomaly_event" \in hist'.failed) =>
           /\ db' = db
           /\ hist'.last_op \in {"inject_fault", "inject_attack", "clear_anomalies"}
           /\ hist'.last_op = "inject_fault" =>
                  \E k \in FaultKinds, mg \in Magnitudes :
                      plant' = set_fault(plant, k, mg) /\ network' = network
           /\ hist'.last_op = "inject_attack" =>
                  \E k \in AttackKinds, mg \in Magnitudes :
                      network' = set_attack(network, k, mg) /\ plant' = plant
           /\ hist'.last_op = "clear_anomalies" =>
                  plant' = clear_fault(plant) /\ network' = clear_attack(network)
           /\ UNCHANGED <<mats, controller, fault_detector, attack_detector, sim>>

\* a tick whose saves raised returns the record of a successful tick, built from
\* the core state alone, with the clock advanced
C13_SinkResult ==
    (pc = "idle" /\ hist.last_op = "step" /\ hist.failed \cap SinkCalls # {}) =>
        /\ result.kind = "ok"
        /\ result.state = plant.x
        /\ result.reference = controller.reference
        /\ result.network = get_statistics(network)
        /\ result.active_fault = plant.fault_active
        /\ result.active_attack = network.attack_active
        /\ result.anomaly_type = classify_anomaly(result.fault_detector.detected,
                                                  result.attack_detector.detected)
        /\ sim.step_count = hist.tick_count + 1
        /\ sim.time = hist.tick_time + DT

\* C13: whichever of save_system_data, save_detection_results and
\* save_network_stats raise, step() goes on to return the record of a successful
\* tick and the saves change nothing of the core state; inject_fault,
\* inject_attack and clear_anomalies set the injection state whether or not the
\* event write raises.
C13_SinkFailuresIsolated == []C13_SinkResult /\ [][C13_SinkStep]_vars

\* a tick of a faulty plant whose system row could not be written
C13_Witness ==
    /\ pc = "idle"
    /\ hist.last_op = "step"
    /\ "save_system_data" \in hist.failed
    /\ result.kind = "ok"
    /\ result.active_fault
    /\ db.system_data = <<>>
    /\ Len(db.anomaly_events) = 1

\* a failed round trip hands on what the channel's send returned and goes on to
\* the next stage
C14_TripStep ==
    /\ (pc = "send_measurement" /\ "measurement_round_trip" \in hist'.failed) =>
           /\ pc' = "compute_control"
           /\ \E randn \in RandnDraws :
                  /\ ~send_measurement(network, loc.y, randn).raised
                  /\ loc'.y_received = send_measurement(network, loc.y, randn).y
    /\ (pc = "send_control_signal" /\ "control_round_trip" \in hist'.failed
            /\ "control_round_trip" \notin hist.failed) =>
           /\ pc' = "plant_step"
           /\ ~send_control_signal(network, loc.u).raised
           /\ loc'.u_received = send_control_signal(network, loc.u).u

\* the value handed on is the one the controller, the plant and the attack
\* detector are given, and a tick that nothing else stops returns its record
\* with the clock advanced
C14_TripResult ==
    /\ ("measurement_round_trip" \in hist.failed /\ At(3, "compute_control")) =>
           /\ log[2].out = loc.y_received \/ pc = "idle"
           /\ log[3].args = <<log[2].out>>
    /\ ("control_round_trip" \in hist.failed /\ At(6, "plant_step")) =>
           log[6].args = <<log[5].out>>
    /\ ("control_round_trip" \in hist.failed /\ At(8, "attack_check")) =>
           log[8].args[1] = log[5].out
    /\ (pc = "idle" /\ hist.last_op = "step" /\ result.kind = "ok"
            /\ hist.failed \cap {"measurement_round_trip", "control_round_trip"} # {}) =>
           /\ result.output = log[2].out
           /\ result.control = log[5].out
           /\ sim.step_count = hist.tick_count + 1
           /\ sim.time = hist.tick_time + DT
    /\ (pc = "idle" /\ hist.last_op = "step" /\ result.kind = "default") =>
           log[Len(log) - 1].stage \in
               {"send_measurement", "send_control_signal", "plant_step"}

\* C14: when the encrypt/decrypt round trip of the measurement raises, the
\* controller receives what send_measurement returned; when the round trip of
\* the control raises, the plant and the attack detector receive what
\* send_control_signal returned; the tick goes on, and ends with the time and the
\* tick counter advanced.
C14_PassThrough == []C14_TripResult /\ [][C14_TripStep]_vars

\* a tick with a reference set, whose control round trip raised
C14_Witness ==
    /\ pc = "idle"
    /\ hist.last_op = "step"
    /\ result.kind = "ok"
    /\ "control_round_trip" \in hist.failed
    /\ result.control # Zeros(m)
    /\ sim.step_count = 1

\* a check that raises leaves both detectors as they were and hands over to the
\* attack check
C15_CheckStep ==
    (pc = "fault_check" /\ "fault_check" \in hist'.failed) =>
        /\ pc' = "attack_check"
        /\ UNCHANGED <<fault_detector, attack_detector, sim>>

\* the record of a tick whose fault check raised
C15_CheckResult ==
    (pc = "idle" /\ hist.last_op = "step" /\ "fault_check" \in hist.failed) =>
        /\ result.kind = "ok"
        /\ result.fault_detector.statistic = 0
        /\ ~result.fault_detector.detected
        /\ LET k == Len(attack_detector.test_statistics)
           IN  /\ k >= 1
               /\ result.attack_detector.statistic = attack_detector.test_statistics[k]
               /\ result.attack_detector.detected = attack_detector.detections[k]
               /\ result.attack_detector.statistic =
                      AttackStatistic(attack_detector.residuals[k])
        /\ result.anomaly_type = classify_anomaly(FALSE, result.attack_detector.detected)
        /\ sim.step_count = hist.tick_count + 1
        /\ sim.time = hist.tick_time + DT

\* C15: when FaultDetector.check raises during a tick, the tick's record reports
\* the fault detector with statistic 0 and no detection, the attack detector
\* with the outcome of its own check, the label classified from these two, and
\* the tick ends normally with the time and the tick counter advanced.
C15_DetectorFailure == []C15_CheckResult /\ [][C15_CheckStep]_vars

\* the check raised on a residual that is not zero
C15_Witness ==
    /\ pc = "idle"
    /\ hist.last_op = "step"
    /\ "fault_check" \in hist.failed
    /\ result.kind = "ok"
    /\ result.fault_detector.residual # 0
    /\ result.anomaly_type = "Normal"

\* the plant holds one fault at most, and an inactive fault has no kind and no
\* magnitude; set_fault replaces, set_fault and clear_fault are idempotent
C16_FaultState ==
    /\ ~plant.fault_active =>
           (plant.fault_type = "None" /\ plant.fault_magnitude = Num(0))
    /\ Cardinality(FaultEffects(plant)) <= 1
    /\ (plant.fault_active /\ plant.fault_magnitude = Num(Mag)) =>
           Cardinality(FaultEffects(plant)) = 1
    /\ clear_fault(clear_fault(plant)) = clear_fault(plant)
    /\ \A k \in FaultKinds, mg \in Magnitudes :
           /\ set_fault(set_fault(plant, k, mg), k, mg) = set_fault(plant, k, mg)
           /\ set_fault(plant, k, mg).fault_type = k
           /\ set_fault(plant, k, mg).fault_magnitude = mg
           /\ Cardinality(FaultEffects(set_fault(plant, k, mg))) <= 1

\* an inject_fault leaves the plant with exactly the fault it names, whatever
\* fault was active before
C16_FaultReplaced ==
    (hist'.events # hist.events /\ hist'.last_op = "inject_fault") =>
        /\ plant'.fault_active
        /\ plant'.x = plant.x
        /\ \E k \in FaultKinds, mg \in Magnitudes :
               /\ plant' = set_fault(clear_fault(plant), k, mg)
               /\ db' # db => db'.anomaly_events[Len(db'.anomaly_events)].magnitude = mg

\* C16: at most one fault kind is active in any plant state: set_fault replaces
\* the fault that was active, an inactive fault has kind none and magnitude 0, a
\* Plant.step applies at most one of the three fault effects, and set_fault with
\* the same arguments and clear_fault are idempotent.
C16_SingleFault == []C16_FaultState /\ [][C16_FaultReplaced]_vars

\* a second inject_fault has replaced the first
C16_Witness ==
    /\ hist.last_op = "inject_fault"
    /\ Len(db.anomaly_events) = 2
    /\ db.anomaly_events[1].event_type = "fault"
    /\ db.anomaly_events[2].event_type = "fault"
    /\ db.anomaly_events[1].magnitude # db.anomaly_events[2].magnitude
    /\ plant.fault_magnitude = db.anomaly_events[2].magnitude
    /\ plant.x # Zeros(n)

\* the control with the magnitude mg added to every channel
Shifted(u, mg) == [i \in 1..Len(u) |-> u[i] + mg]

\* Plant.step(u) of the plant pl with an actuator fault of magnitude mg gives the
\* state and the output of the fault-free Plant.step(u + mg), the noise draws
\* being zero
ActuatorAsShift(pl, u, mg) ==
    LET faulty == plant_step(set_fault(pl, "actuator", Num(mg)), u, Zeros(n), 0)
        clean == plant_step(clear_fault(pl), Shifted(u, mg), Zeros(n), 0)
    IN  /\ ~faulty.raised /\ ~clean.raised
        /\ faulty.plant.x = clean.plant.x
        /\ faulty.y = clean.y

\* from every reachable plant state, for the control in flight and the zero control
C17_Equivalence ==
    \A u \in {loc.u_received, Zeros(m)}, mg \in {Mag, -Mag} :
        ActuatorAsShift(plant, u, mg)

\* the step() of a plant with an actuator fault moves the state as the
\* fault-free plant moves it under the shifted control
C17_FaultyStep ==
    (pc = "plant_step" /\ ActiveKind(plant) = "actuator" /\ plant.fault_magnitude.num
        /\ hist'.events = hist.events) =>
        LET clean == plant_step(clear_fault(plant),
                                Shifted(loc.u_received, plant.fault_magnitude.v),
                                Zeros(n), 0)
        IN  /\ pc' = "fault_check"
            /\ plant'.x = clean.plant.x
            /\ loc'.y_next = clean.y

\* C17: with all noise draws zero, Plant.step(u) with an actuator fault of
\* magnitude m active yields the next state and the output that Plant.step(u')
\* yields with no fault active from the same state, u' being u with m added to
\* every control channel.
C17_ActuatorShift == []C17_Equivalence /\ [][C17_FaultyStep]_vars

\* a plant with an actuator fault has just been stepped away from the origin
C17_Witness ==
    /\ pc = "fault_check"
    /\ ActiveKind(plant) = "actuator"
    /\ plant.fault_magnitude = Num(Mag)
    /\ plant.x # Zeros(n)
    /\ hist.events = 1

\* the rows of table t1 are still there, in place and unchanged, in t2
Kept(t1, t2) == IsPrefix(t1, t2)
\* t2 is t1 with exactly k rows appended
Grown(t1, t2, k) == Kept(t1, t2) /\ Len(t2) = Len(t1) + k
Last(t) == t[Len(t)]

\* what each operation does to the tables
C18_Appends ==
    /\ Kept(db.system_data, db'.system_data)
    /\ Kept(db.detections, db'.detections)
    /\ Kept(db.anomaly_events, db'.anomaly_events)
    /\ Kept(db.network_stats, db'.network_stats)
    /\ (pc # "persist" /\ pc' # "idle") => db' = db
    /\ (pc # "idle" /\ pc' = "idle") => db' = db
    /\ (pc = "persist" /\ hist'.failed \cap SinkCalls = {}) =>
           /\ Grown(db.system_data, db'.system_data, 1)
           /\ Grown(db.detections, db'.detections, 1)
           /\ Last(db'.system_data).timestamp = sim.time
           /\ Last(db'.detections).timestamp = Last(db'.system_data).timestamp
           /\ db'.anomaly_events = db.anomaly_events
    /\ (hist'.events # hist.events /\ pc = "idle" /\ pc' = "idle") =>
           /\ db'.system_data = db.system_data
           /\ db'.detections = db.detections
           /\ db'.network_stats = db.network_stats
           /\ hist'.last_op \in {"set_reference", "reset", "get_history"} => db' = db
           /\ (hist'.last_op \in {"inject_fault", "inject_attack", "clear_anomalies"}
                   /\ hist'.failed = {}) =>
                  /\ Grown(db.anomaly_events, db'.anomaly_events, 1)
                  /\ Last(db'.anomaly_events).timestamp = sim.time
                  /\ Last(db'.anomaly_events).event_type =
                         CASE hist'.last_op = "inject_fault" -> "fault"
                           [] hist'.last_op = "inject_attack" -> "attack"
                           [] hist'.last_op = "clear_anomalies" -> "clear"
                  /\ hist'.last_op = "clear_anomalies" =>
                         Last(db'.anomaly_events).magnitude = Num(0)

\* one system row and one detection row per tick that reached its persistence
\* stage with the sink working
C18_RowPerTick ==
    /\ Len(db.system_data) <= hist.calls
    /\ Len(db.detections) <= Len(db.system_data)
    /\ (pc = "idle" /\ hist.last_op = "step" /\ result.kind = "ok"
            /\ hist.failed \cap SinkCalls = {}) =>
           /\ Len(db.system_data) >= 1 /\ Len(db.detections) >= 1
           /\ Last(db.system_data).timestamp = hist.tick_time
           /\ Last(db.detections).timestamp = hist.tick_time
           /\ Last(db.system_data).state = result.state

\* C18: the simulator only appends to the database: a successful tick appends one
\* system row and one detection row with the same timestamp, inject_fault one
\* 'fault' event, inject_attack one 'attack' event, clear_anomalies one 'clear'
\* event of magnitude 0 (the sink not failing), and no operation, reset()
\* included, removes or changes a row already written.
C18_AppendOnly == []C18_RowPerTick /\ [][C18_Appends]_vars

\* two ticks with a reset between them: two rows with the same timestamp
C18_Witness ==
    /\ pc = "idle"
    /\ hist.last_op = "step"
    /\ Len(db.system_data) = 2
    /\ Len(db.detections) = 2
    /\ db.system_data[1].timestamp = db.system_data[2].timestamp
    /\ db.system_data[1] # db.system_data[2]
    /\ Len(db.anomaly_events) = 1

\* the rows a result holds, and the k rows appended last to a table
RowsOf(seq) == {seq[i] : i \in 1..Len(seq)}
Latest(rows, k) ==
    {rows[i] : i \in {j \in 1..Len(rows) : j > Len(rows) - k}}

\* C19 (as claimed): get_recent_data(limit = N) returns the N system rows and the
\* N detection rows appended last (all of them when there are fewer), and
\* get_anomaly_events(limit = M) the M events appended last, also after reset()
\* has set the time back to zero.
C19_RecentIsLatest ==
    /\ hist.last_op = "get_history" =>
           /\ RowsOf(hist.history.system) = Latest(db.system_data, hist.history.limit)
           /\ RowsOf(hist.history.detections) =
                  Latest(db.detections, hist.history.limit)
    /\ \A limit \in Limits : \A events \in get_anomaly_events(db, limit) :
           RowsOf(events) = Latest(db.anomaly_events, limit)

\* the loop has left the broadcast of the current round's result
BroadcastOver == pc = "sleep" /\ result.type = "update"
Times(seq, x) == Cardinality({i \in 1..Len(seq) : seq[i] = x})

C20_AtMostOnce ==
    \A ws \in Listeners : \A r \in 1..MaxRounds : Times(hist.received[ws], r) <= 1
C20_FailedRemoved ==
    BroadcastOver => loc.disconnected \cap hist.websockets = {}
C20_StayedReceive ==
    BroadcastOver =>
        \A ws \in loc.stayed \ loc.disconnected :
            Times(hist.received[ws], result.round) >= 1
C20_CoreUntouched ==
    /\ UNCHANGED <<mats, plant, controller, fault_detector, attack_detector,
                   network, db>>
    /\ sim' # sim => pc = "loop"
    /\ pc \in {"next", "send"} => pc' \in {"next", "send", "sleep"}
    /\ pc = "sleep" => pc' \in {"sleep", "loop"}

\* C20 (as claimed): each round's result is sent at most once to each listener; a
\* listener whose send failed is out of the listener set when the broadcast is
\* over; every listener that was connected from the start to the end of the
\* broadcast and whose send did not fail has received that round's message; and
\* no step but the loop's own step() changes simulator state, the loop always
\* going on to its sleep and its next round.
C20_BroadcastContract ==
    /\ [](C20_AtMostOnce /\ C20_FailedRemoved /\ C20_StayedReceive)
    /\ [][C20_CoreUntouched]_vars

\* controls to compare: none, and the reference on the first channel
TwoControls == {Zeros(m), [i \in 1..m |-> IF i = 1 THEN RefVal ELSE 0]}
LastOf(seq) == seq[Len(seq)]

C21_ResidualReturned ==
    (pc = "attack_check" /\ pc' # pc) =>
        LastOf(attack_detector'.residuals) =
            VecSub(loc.u_received, MatVec(mats.C_est, attack_detector.x_u_hat))
C21_DependsOnControl ==
    \A u1 \in TwoControls : \A u2 \in TwoControls :
        u1 # u2 =>
            update_estimator(attack_detector, loc.y_received, u1).x_u_hat #
            update_estimator(attack_detector, loc.y_received, u2).x_u_hat

\* C21 (as claimed): update_estimator returns r_u = u - C_est x_u_hat, computed
\* from the estimate held before the call (the residual every attack check keeps
\* is that value), and the estimate it leaves depends on u: from one estimate and
\* one y, two different controls leave two different estimates.
C21_EstimatorUsesControl ==
    /\ []C21_DependsOnControl
    /\ [][C21_ResidualReturned]_vars

\* what Plant.step does from the same state, control and draws with no fault set
FaultFree(pl, u, w, eta) == plant_step(clear_fault(pl), u, w, eta)

C22_SameStep ==
    (pc = "plant_step" /\ pc' # pc /\ ActiveKind(plant) = "sensor") =>
        \E w \in WDraws, eta \in EtaDraws :
            LET free == FaultFree(plant, loc.u_received, w, eta)
            IN  /\ plant'.x = free.plant.x
                /\ pc' = IF free.raised THEN "except" ELSE After("plant_step")
                /\ hist'.events = hist.events + (IF w # Zeros(n) THEN 1 ELSE 0)
C22_OutputReRead ==
    (pc = "idle" /\ pc' # pc) =>
        /\ loc'.y = MatVec(mats.C, plant.x)[1]
        /\ loc'.y_next = LocInit.y_next

\* C22 (as claimed): a tick reads its output from the plant state and not from
\* the value Plant.step returned, and with a sensor fault of any magnitude active
\* Plant.step leaves the plant state, and the tick the course, that it leaves
\* with no fault and the same draws: the tick goes on to the fault check with
\* the same signals, so the runs with and without the fault agree on every tick.
C22_SensorFaultInert == [][C22_SameStep /\ C22_OutputReRead]_vars

\* C23: the replay history is empty after every set_attack and clear_attack and
\* never holds more than 100 controls; while a replay attack is active the k-th
\* control sent since set_attack is delivered as submitted for k <= 11 and as
\* the control submitted at send k - 10 for k >= 12, the controls compared being
\* those handed to send_control_signal and not those delivered.
C23_ReplayDelay ==
    /\ Len(network.attack_history) <= 100
    /\ hist.last_op \in {"set_attack", "clear_attack"} => network.attack_history = <<>>
    /\ (network.attack_active /\ network.attack_type = "replay") =>
           /\ Len(hist.delivered) = Len(hist.submitted)
           /\ \A k \in 1..Len(hist.delivered) :
                  hist.delivered[k] =
                      IF k <= 11 THEN hist.submitted[k] ELSE hist.submitted[k - 10]

\* a replay attack set on a channel whose history held controls, then more than
\* 100 sends: the history is full and the control delivered is an old one
C23_Witness ==
    /\ network.attack_active /\ network.attack_type = "replay"
    /\ hist.sets = 2
    /\ Len(hist.submitted) > 101
    /\ Len(network.attack_history) = 100
    /\ hist.delivered[Len(hist.delivered)] # hist.submitted[Len(hist.submitted)]
    /\ hist.delivered[12] = hist.submitted[2]
    /\ hist.delivered[11] = hist.submitted[11]

\* C24 (as claimed): when step() has returned the safe-default record, the plant
\* state, the controller's estimate, both detectors (estimate and histories), the
\* channel's packet counters and its replay history are what they were when that
\* step() was called, as the time and the tick counter are.
C24_SafeDefaultAllOrNothing ==
    (pc = "idle" /\ hist.last_op = "step" /\ result.kind = "default") =>
        /\ ComponentsOf(plant, controller, fault_detector, attack_detector, network)
               = hist.tick_start
        /\ sim.time = hist.tick_time
        /\ sim.step_count = hist.tick_count

Min(a, b) == IF a < b THEN a ELSE b

\* the three lists of a detector hold exactly the last min(k, cap) of the k
\* entries checked since the last reset, in order
HoldsLast(det, all) ==
    LET k == Len(all)
        len == Min(k, HistoryCap)
    IN  /\ Len(det.residuals) = len
        /\ Len(det.test_statistics) = len
        /\ Len(det.detections) = len
        /\ \A i \in 1..len :
               /\ det.residuals[i] = all[k - len + i][1]
               /\ det.test_statistics[i] = all[k - len + i][2]
               /\ det.detections[i] = all[k - len + i][3]

\* C4: after k checks since construction or the last reset() the three history
\* lists of each detector have length min(k, 1000) and hold, in order, the
\* entries of the most recent min(k, 1000) checks; the length never exceeds 1000.
C4_BoundedHistory ==
    /\ HoldsLast(fault_detector, hist.fault_all)
    /\ HoldsLast(attack_detector, hist.attack_all)
    /\ Len(fault_detector.residuals) <= HistoryCap
    /\ Len(attack_detector.residuals) <= HistoryCap

\* more than 1000 checks made, the oldest entries gone
C4_Witness ==
    /\ Len(hist.fault_all) > HistoryCap + 1
    /\ Len(hist.attack_all) > HistoryCap + 1
    /\ Len(fault_detector.residuals) = HistoryCap
    /\ Len(attack_detector.residuals) = HistoryCap
    /\ fault_detector.residuals[1] # hist.fault_all[1][1]
    /\ fault_detector.residuals[1] = hist.fault_all[Len(hist.fault_all) - HistoryCap + 1][1]

\* C7 (as claimed): constructing the system for a plant with n = 2 states,
\* m = 2 inputs and p = 1 output never raises: every product and reshape of the
\* constructors is defined, and the construction runs to its end.
C7_ConstructionCompletes ==
    (hist.n = 2 /\ hist.m = 2 /\ hist.p = 1) => pc # "raised"

====
